---- MODULE Spec2Model ----
(***************************************************************************)
(* A model of the recommendation engine of letterboxblend                  *)
(* (src/backend/recommendation_engine.py, src/backend/utils.py,            *)
(* src/backend/config.py).                                                 *)
(*                                                                         *)
(* Conventions.                                                            *)
(*  - A Python float is an exact rational <<n, d>> with d > 0, in lowest   *)
(*    terms.                                                               *)
(*  - A Python str is a sequence of tokens; the token " " is white space,  *)
(*    "," is a comma, every other token is a run of non-blank characters.  *)
(*    strip(), lower() and split(',') are computed on the tokens.          *)
(*  - A Python dict is a function; a key is present iff it is in DOMAIN.   *)
(*    Where the code depends on the insertion order of a dict the order is *)
(*    carried beside it as a sequence of keys.                             *)
(***************************************************************************)
EXTENDS Integers, Sequences, FiniteSets, TLC

(***************************************************************************)
(* Rational arithmetic                                                     *)
(***************************************************************************)
Abs(n) == IF n < 0 THEN 0 - n ELSE n

RECURSIVE GCD(_, _)
GCD(a, b) == IF b = 0 THEN a ELSE GCD(b, a % b)

Rat(n, d) ==
    LET s == IF d < 0 THEN 0 - 1 ELSE 1
        g == GCD(Abs(n), Abs(d))
    IN  <<(s * n) \div g, (s * d) \div g>>

RInt(n) == <<n, 1>>
RAdd(x, y) == Rat(x[1] * y[2] + y[1] * x[2], x[2] * y[2])
RSub(x, y) == Rat(x[1] * y[2] - y[1] * x[2], x[2] * y[2])
RMul(x, y) == Rat(x[1] * y[1], x[2] * y[2])
RDiv(x, y) == Rat(x[1] * y[2], x[2] * y[1])
RLt(x, y) == x[1] * y[2] < y[1] * x[2]
RLe(x, y) == x[1] * y[2] <= y[1] * x[2]
RGt(x, y) == RLt(y, x)
RGe(x, y) == RLe(y, x)
RMin(x, y) == IF RLt(y, x) THEN y ELSE x
RMax(x, y) == IF RGt(y, x) THEN y ELSE x
\* int(x) of a non-negative float
RFloor(x) == x[1] \div x[2]

Zero == RInt(0)

(***************************************************************************)
(* Strings as token sequences                                              *)
(***************************************************************************)
IsBlank(tok) == tok = " "

RECURSIVE LStrip(_)
LStrip(s) == IF s # <<>> /\ IsBlank(Head(s)) THEN LStrip(Tail(s)) ELSE s

RECURSIVE RStrip(_)
RStrip(s) ==
    IF s # <<>> /\ IsBlank(s[Len(s)]) THEN RStrip(SubSeq(s, 1, Len(s) - 1)) ELSE s

\* str.strip()
Strip(s) == RStrip(LStrip(s))

\* str.lower() of one token
LowerTok(tok) ==
    CASE tok = "A" -> "a"
      [] tok = "B" -> "b"
      [] tok = "Ann" -> "ann"
      [] tok = "Bob" -> "bob"
      [] tok = "Cy" -> "cy"
      [] tok = "Dee" -> "dee"
      [] tok = "Eve" -> "eve"
      [] tok = "Fay" -> "fay"
      [] tok = "War" -> "war"
      [] OTHER -> tok

\* str.lower()
Lower(s) == [i \in 1..Len(s) |-> LowerTok(s[i])]

\* str.split(','): the pieces between the commas, in order
RECURSIVE SplitFrom(_, _, _)
SplitFrom(s, i, cur) ==
    IF i > Len(s) THEN <<cur>>
    ELSE IF s[i] = "," THEN <<cur>> \o SplitFrom(s, i + 1, <<>>)
    ELSE SplitFrom(s, i + 1, Append(cur, s[i]))

Split(s) == SplitFrom(s, 1, <<>>)

Range(s) == {s[i] : i \in 1..Len(s)}

RECURSIVE SeqSum(_)
SeqSum(s) == IF s = <<>> THEN Zero ELSE RAdd(Head(s), SeqSum(Tail(s)))

\* every ordering of a finite set, as sequences without repetition
Perms(S) ==
    {p \in [1..Cardinality(S) -> S] : \A i, j \in 1..Cardinality(S) : p[i] = p[j] => i = j}

\* Python's None where a genre label is expected
None == <<"None">>
\* the label of the bucket of movies without a primary genre
Other == <<"other">>

(***************************************************************************)
(* get_common_genres                                                       *)
(***************************************************************************)
\* dict.get(key, 0)
GetOr0(d, k) == IF k \in DOMAIN d THEN d[k] ELSE Zero

\* lines 57-59
CommonGenresSet(user1_weights, user2_weights) ==
    (DOMAIN user1_weights) \cap (DOMAIN user2_weights)

\* lines 61-66: the genres weighted positively by both users
WeightedCommon(user1_weights, user2_weights) ==
    {g \in CommonGenresSet(user1_weights, user2_weights) :
        RGt(GetOr0(user1_weights, g), Zero) /\ RGt(GetOr0(user2_weights, g), Zero)}

FallbackWeight == RInt(5)

\* variants of get_common_genres with one line changed
GetCommonGenres_FirstUserOnly(user1_weights, user2_weights) ==
    LET weighted == WeightedCommon(user1_weights, user2_weights)
    IN  IF weighted # {}
        THEN [g \in weighted |-> user1_weights[g]]
        ELSE [g \in CommonGenresSet(user1_weights, user2_weights) |-> FallbackWeight]

GetCommonGenres_FallbackOnWeighted(user1_weights, user2_weights) ==
    LET weighted == WeightedCommon(user1_weights, user2_weights)
    IN  [g \in weighted |-> RDiv(RAdd(user1_weights[g], user2_weights[g]), RInt(2))]

GetCommonGenres_NonNegative(user1_weights, user2_weights) ==
    LET weighted == {g \in CommonGenresSet(user1_weights, user2_weights) :
                        RGe(user1_weights[g], Zero) /\ RGe(user2_weights[g], Zero)}
    IN  IF weighted # {}
        THEN [g \in weighted |->
                 RDiv(RAdd(user1_weights[g], user2_weights[g]), RInt(2))]
        ELSE [g \in CommonGenresSet(user1_weights, user2_weights) |-> FallbackWeight]

GetCommonGenres(user1_weights, user2_weights) ==
    LET weighted == WeightedCommon(user1_weights, user2_weights)
    IN  IF weighted # {}
        THEN [g \in weighted |->
                 RDiv(RAdd(user1_weights[g], user2_weights[g]), RInt(2))]
        ELSE [g \in CommonGenresSet(user1_weights, user2_weights) |-> FallbackWeight]

(***************************************************************************)
(* sorted(..., reverse=True) and list.sort(reverse=True): a stable sort,   *)
(* descending by key.  A key is a sequence of rationals, compared          *)
(* lexicographically like a Python tuple.                                  *)
(***************************************************************************)
RECURSIVE KeyGt(_, _)
KeyGt(a, b) ==
    IF a = <<>> THEN FALSE
    ELSE IF RGt(Head(a), Head(b)) THEN TRUE
    ELSE IF RLt(Head(a), Head(b)) THEN FALSE
    ELSE KeyGt(Tail(a), Tail(b))

\* the keys compare equal
KeyEq(a, b) == ~KeyGt(a, b) /\ ~KeyGt(b, a)

\* the place of element i in the sorted list: after every element with a
\* greater key and after the earlier elements with an equal key
SortedPlace(keys, i) ==
    1 + Cardinality({j \in 1..Len(keys) :
                        \/ KeyGt(keys[j], keys[i])
                        \/ (j < i /\ KeyEq(keys[j], keys[i]))})

SortDescByKeys(s, keys) ==
    LET ks == keys \o <<>>
        place == [i \in 1..Len(s) |-> SortedPlace(ks, i)] \o <<>>
    IN  [r \in 1..Len(s) |-> s[CHOOSE i \in 1..Len(s) : place[i] = r]] \o <<>>

(***************************************************************************)
(* Config (src/backend/config.py)                                          *)
(***************************************************************************)
MAX_RECOMMENDATIONS == 50
\* the literal of the early return of apply_genre_diversity
DIVERSITY_THRESHOLD == 50

(***************************************************************************)
(* apply_genre_diversity: the set-up before the emission loop              *)
(***************************************************************************)
\* movie.get('genres', [])
MovieGenres(movie) == IF "genres" \in DOMAIN movie THEN movie.genres ELSE <<>>

\* x.get('combined_score', 0)
MovieScore(movie) ==
    IF "combined_score" \in DOMAIN movie THEN movie.combined_score ELSE Zero

\* lines 336-338: the genre names, heaviest first; cg_order is the insertion
\* order of the dict common_genres
AllGenreNames(common_genres, cg_order) ==
    SortDescByKeys(cg_order, [i \in 1..Len(cg_order) |-> <<common_genres[cg_order[i]]>>])

\* lines 342-345: the keys of genre_groups in insertion order
GroupOrder(common_genres, cg_order) ==
    LET names == AllGenreNames(common_genres, cg_order)
    IN  IF \E i \in 1..Len(names) : names[i] = Other THEN names
        ELSE Append(names, Other)

\* the scan with a non-strict comparison: the last listed genre wins a tie
RECURSIVE PrimaryScan_LastWinsTie(_, _, _, _)
PrimaryScan_LastWinsTie(genres, common_genres, primary_genre, highest_weight) ==
    IF genres = <<>> THEN primary_genre
    ELSE LET genre == Head(genres)
         IN  IF genre \in DOMAIN common_genres
                  /\ RGe(common_genres[genre], highest_weight)
             THEN PrimaryScan_LastWinsTie(Tail(genres), common_genres, genre, common_genres[genre])
             ELSE PrimaryScan_LastWinsTie(Tail(genres), common_genres, primary_genre, highest_weight)

\* lines 353-359: the scan over a movie's genres for the heaviest common one
RECURSIVE PrimaryScan(_, _, _, _)
PrimaryScan(genres, common_genres, primary_genre, highest_weight) ==
    IF genres = <<>> THEN primary_genre
    ELSE LET genre == Head(genres)
         IN  IF genre \in DOMAIN common_genres
                  /\ RGt(common_genres[genre], highest_weight)
             THEN PrimaryScan(Tail(genres), common_genres, genre, common_genres[genre])
             ELSE PrimaryScan(Tail(genres), common_genres, primary_genre, highest_weight)

\* lines 348-364: the bucket a movie is appended to
BucketOf(movie, common_genres) ==
    LET movie_genres == MovieGenres(movie)
        primary_genre == PrimaryScan(movie_genres, common_genres, None, Zero)
    IN  IF movie_genres = <<>> THEN Other
        ELSE IF primary_genre # None /\ primary_genre # <<>> THEN primary_genre
        ELSE Other

\* genre_groups with every bucket in arrival order
GenreGroups_Unsorted(candidate_movies, common_genres, cg_order) ==
    [genre \in Range(GroupOrder(common_genres, cg_order)) |->
        LET InBucket(movie) == BucketOf(movie, common_genres) = genre
        IN  SelectSeq(candidate_movies, InBucket)]

\* lines 342-368: genre_groups, every bucket sorted by combined_score
GenreGroups(candidate_movies, common_genres, cg_order) ==
    [genre \in Range(GroupOrder(common_genres, cg_order)) |->
        LET InBucket(movie) == BucketOf(movie, common_genres) = genre
            members == SelectSeq(candidate_movies, InBucket)
        IN  SortDescByKeys(members,
                           [i \in 1..Len(members) |-> <<MovieScore(members[i])>>])]

\* lines 374-375
AvailableGenres(groups, group_order) ==
    LET NonEmpty(genre) == Len(groups[genre]) > 0
    IN  SelectSeq(group_order, NonEmpty)

\* lines 377-378
TotalWeight(available_genres, common_genres) ==
    RAdd(SeqSum([i \in 1..Len(available_genres) |->
                    IF available_genres[i] # Other
                    THEN GetOr0(common_genres, available_genres[i])
                    ELSE Zero]),
         RInt(1))

Min2(a, b) == IF a < b THEN a ELSE b
Max2(a, b) == IF a > b THEN a ELSE b

\* the target without the floor of 1 of line 388
GenreTarget_NoMinimum(genre, groups, available_genres, common_genres, cap) ==
    LET weight == IF genre = Other THEN RInt(1) ELSE GetOr0(common_genres, genre)
        total_weight == TotalWeight(available_genres, common_genres)
        target == RFloor(RMul(RDiv(weight, total_weight), RInt(cap)))
    IN  Min2(target, Len(groups[genre]))

\* lines 380-389
GenreTarget(genre, groups, available_genres, common_genres, cap) ==
    LET weight == IF genre = Other THEN RInt(1) ELSE GetOr0(common_genres, genre)
        total_weight == TotalWeight(available_genres, common_genres)
        target == RFloor(RMul(RDiv(weight, total_weight), RInt(cap)))
        capped == Min2(target, Len(groups[genre]))
    IN  IF Len(groups[genre]) > 0 THEN Max2(capped, 1) ELSE 0

GenreTargets(groups, available_genres, common_genres, cap) ==
    [genre \in Range(available_genres) |->
        GenreTarget(genre, groups, available_genres, common_genres, cap)]

\* lines 393-394
SortedGenres(available_genres, targets) ==
    SortDescByKeys(available_genres,
                   [i \in 1..Len(available_genres) |-> <<RInt(targets[available_genres[i]])>>])

(***************************************************************************)
(* apply_genre_diversity: one iteration of the emission loop               *)
(***************************************************************************)
\* line 403-406: may the scan of sorted_genres take from this bucket
ScanAllows(genre, groups, indices, targets, last, count) ==
    /\ indices[genre] < Len(groups[genre])
    /\ indices[genre] < targets[genre]
    /\ (genre # last \/ count < 2)

\* lines 402-420: the first bucket of sorted_genres the scan takes from
ScanPick(sorted, groups, indices, targets, last, count) ==
    LET ok == {i \in 1..Len(sorted) :
                  ScanAllows(sorted[i], groups, indices, targets, last, count)}
    IN  IF ok = {} THEN None
        ELSE sorted[CHOOSE i \in ok : \A j \in ok : i <= j]

\* the relaxed pass looking at the first bucket of available_genres only
RelaxedPick_FirstBucketOnly(available, groups, indices) ==
    IF available # <<>> /\ indices[available[1]] < Len(groups[available[1]])
    THEN available[1]
    ELSE None

\* lines 422-431: the first bucket of available_genres with a movie left
RelaxedPick(available, groups, indices) ==
    LET ok == {i \in 1..Len(available) :
                  indices[available[i]] < Len(groups[available[i]])}
    IN  IF ok = {} THEN None
        ELSE available[CHOOSE i \in ok : \A j \in ok : i <= j]

\* lines 407-415: the loop state after the scan took from bucket genre
AfterScan(ls, genre, groups) ==
    [balanced |-> Append(ls.balanced, groups[genre][ls.indices[genre] + 1]),
     indices  |-> [ls.indices EXCEPT ![genre] = @ + 1],
     last     |-> genre,
     count    |-> IF genre = ls.last THEN ls.count + 1 ELSE 1]

\* the relaxed pass that leaves the bucket's index where it is
AfterRelaxed_IndexKept(ls, genre, groups) ==
    [balanced |-> Append(ls.balanced, groups[genre][ls.indices[genre] + 1]),
     indices  |-> ls.indices,
     last     |-> genre,
     count    |-> 1]

\* lines 425-429: the loop state after the relaxed pass took from bucket genre
AfterRelaxed(ls, genre, groups) ==
    [balanced |-> Append(ls.balanced, groups[genre][ls.indices[genre] + 1]),
     indices  |-> [ls.indices EXCEPT ![genre] = @ + 1],
     last     |-> genre,
     count    |-> 1]

\* the loop left as soon as the scan finds no bucket within its quota
LoopOver_ScanOnly(ls, ctx, cap) ==
    \/ Len(ls.balanced) >= cap
    \/ ScanPick(ctx.sorted, ctx.groups, ls.indices, ctx.targets, ls.last, ls.count) = None

\* line 399 and lines 433-434: the loop is left
LoopOver(ls, ctx, cap) ==
    \/ Len(ls.balanced) >= cap
    \/ /\ ScanPick(ctx.sorted, ctx.groups, ls.indices, ctx.targets, ls.last, ls.count) = None
       /\ RelaxedPick(ctx.available, ctx.groups, ls.indices) = None

\* lines 399-434: one iteration
LoopIter(ls, ctx) ==
    LET scan == ScanPick(ctx.sorted, ctx.groups, ls.indices, ctx.targets, ls.last, ls.count)
        relaxed == RelaxedPick(ctx.available, ctx.groups, ls.indices)
    IN  IF scan # None THEN AfterScan(ls, scan, ctx.groups)
        ELSE AfterRelaxed(ls, relaxed, ctx.groups)

RECURSIVE RunLoop(_, _, _)
RunLoop(ls, ctx, cap) ==
    IF LoopOver(ls, ctx, cap) THEN ls ELSE RunLoop(LoopIter(ls, ctx), ctx, cap)

\* lines 336-397: what the loop reads, and its first state
DiversityContext(candidate_movies, common_genres, cg_order, cap) ==
    LET group_order == GroupOrder(common_genres, cg_order)
        groups == GenreGroups(candidate_movies, common_genres, cg_order)
        available == AvailableGenres(groups, group_order)
        targets == GenreTargets(groups, available, common_genres, cap)
    IN  [groups |-> groups, available |-> available, targets |-> targets,
         sorted |-> SortedGenres(available, targets)]

LoopStart(ctx) ==
    [balanced |-> <<>>, indices |-> [genre \in DOMAIN ctx.groups |-> 0],
     last |-> None, count |-> 0]

\* line 449: balanced_movies[:cap]
Truncate(s, cap) == SubSeq(s, 1, Min2(Len(s), cap))

\* line 333: the lists returned as they are
StrictlyBelowThreshold(candidate_movies) == Len(candidate_movies) < DIVERSITY_THRESHOLD

BelowThreshold(candidate_movies) == Len(candidate_movies) <= DIVERSITY_THRESHOLD

\* the whole function
ApplyGenreDiversity(candidate_movies, common_genres, cg_order, cap) ==
    IF BelowThreshold(candidate_movies) THEN candidate_movies
    ELSE LET ctx == DiversityContext(candidate_movies, common_genres, cg_order, cap)
         IN  Truncate(RunLoop(LoopStart(ctx), ctx, cap).balanced, cap)

(***************************************************************************)
(* Python values.  A field that may hold values of several types holds a   *)
(* tagged value; Title, Genre, Plot, title and extract are always str and  *)
(* hold the token sequence itself.                                         *)
(***************************************************************************)
Num(r) == [t |-> "num", v |-> r]
Str(s) == [t |-> "str", v |-> s]
List(l) == [t |-> "list", v |-> l]
PyNone == [t |-> "none", v |-> <<>>]

\* bool(x)
Truthy(x) ==
    CASE x.t = "num" -> x.v[1] # 0
      [] x.t = "none" -> FALSE
      [] OTHER -> x.v # <<>>

\* x != 'N/A'
NotNA(x) == ~(x.t = "str" /\ x.v = <<"N/A">>)

\* `key in movie and movie[key]`
HasTruthy(movie, key) == key \in DOMAIN movie /\ Truthy(movie[key])

\* the same test for a field that holds a str
HasText(movie, key) == key \in DOMAIN movie /\ movie[key] # <<>>

\* the outcome of a call that may raise
Ok(v) == [ok |-> TRUE, v |-> v]
Raised == [ok |-> FALSE, v |-> Zero]

\* the tokens Python reads as a number, with their values
NumericTokens == {"0", "4", "5", "7", "7.5", "8.0", "1990", "2010", "2012", "2023"}

TokenValue(tok) ==
    CASE tok = "0" -> RInt(0)
      [] tok = "4" -> RInt(4)
      [] tok = "5" -> RInt(5)
      [] tok = "7" -> RInt(7)
      [] tok = "7.5" -> Rat(15, 2)
      [] tok = "8.0" -> RInt(8)
      [] tok = "1990" -> RInt(1990)
      [] tok = "2010" -> RInt(2010)
      [] tok = "2012" -> RInt(2012)
      [] tok = "2023" -> RInt(2023)
      [] OTHER -> Zero

\* float(x): a number, or a str that reads as one once stripped; ValueError
\* for any other str, TypeError for None and lists
ToFloat(x) ==
    CASE x.t = "num" -> Ok(x.v)
      [] x.t = "str" ->
            LET s == Strip(x.v)
            IN  IF Len(s) = 1 /\ s[1] \in NumericTokens THEN Ok(TokenValue(s[1]))
                ELSE Raised
      [] OTHER -> Raised

\* int(x): truncation of a number; a str must read as a whole number
ToInt(x) ==
    CASE x.t = "num" -> Ok(IF x.v[1] >= 0 THEN x.v[1] \div x.v[2]
                           ELSE 0 - ((0 - x.v[1]) \div x.v[2]))
      [] x.t = "str" ->
            LET s == Strip(x.v)
            IN  IF Len(s) = 1 /\ s[1] \in NumericTokens /\ TokenValue(s[1])[2] = 1
                THEN Ok(TokenValue(s[1])[1])
                ELSE Raised
      [] OTHER -> Raised

(***************************************************************************)
(* calculate_genre_weights                                                 *)
(***************************************************************************)
\* the rating with imdbRating read after the generic fields
GenreRating_GenericFirst(movie) ==
    IF HasTruthy(movie, "letterboxRating") THEN ToFloat(movie["letterboxRating"])
    ELSE IF HasTruthy(movie, "Rating") THEN ToFloat(movie["Rating"])
    ELSE IF HasTruthy(movie, "Your Rating") THEN ToFloat(movie["Your Rating"])
    ELSE IF HasTruthy(movie, "imdbRating") /\ NotNA(movie["imdbRating"])
         THEN ToFloat(movie["imdbRating"])
    ELSE Ok(RInt(5))

\* lines 24-34: the rating a movie enters the genre statistics with
GenreRating(movie) ==
    IF HasTruthy(movie, "letterboxRating") THEN ToFloat(movie["letterboxRating"])
    ELSE IF HasTruthy(movie, "imdbRating") /\ NotNA(movie["imdbRating"])
         THEN ToFloat(movie["imdbRating"])
    ELSE IF HasTruthy(movie, "Rating") THEN ToFloat(movie["Rating"])
    ELSE IF HasTruthy(movie, "Your Rating") THEN ToFloat(movie["Your Rating"])
    ELSE Ok(RInt(5))

\* lines 37-40: the non-empty stripped pieces of the Genre field
GenreNames(movie) ==
    LET pieces == Split(movie["Genre"])
        stripped == [i \in 1..Len(pieces) |-> Strip(pieces[i])]
        NonEmpty(g) == g # <<>>
    IN  SelectSeq(stripped, NonEmpty)

\* lines 22-44: does the movie reach the statistics
CountsForGenres(movie) == HasText(movie, "Genre") /\ GenreRating(movie).ok

\* lines 39-42 for one movie
RECURSIVE AddGenres(_, _, _)
AddGenres(stats, genres, rating) ==
    IF genres = <<>> THEN stats
    ELSE LET genre == Head(genres)
             old == IF genre \in DOMAIN stats THEN stats[genre]
                    ELSE [count |-> 0, total_rating |-> Zero]
             new == [count |-> old.count + 1,
                     total_rating |-> RAdd(old.total_rating, rating)]
         IN  AddGenres([g \in DOMAIN stats \cup {genre} |->
                           IF g = genre THEN new ELSE stats[g]],
                       Tail(genres), rating)

\* lines 19-44
RECURSIVE GenreStats(_, _)
GenreStats(user_data, stats) ==
    IF user_data = <<>> THEN stats
    ELSE LET movie == Head(user_data)
         IN  IF CountsForGenres(movie)
             THEN GenreStats(Tail(user_data),
                             AddGenres(stats, GenreNames(movie), GenreRating(movie).v))
             ELSE GenreStats(Tail(user_data), stats)

NoStats == [g \in {} |-> [count |-> 0, total_rating |-> Zero]]

\* lines 47-53
CalculateGenreWeights(user_data) ==
    LET stats == GenreStats(user_data, NoStats)
    IN  [genre \in {g \in DOMAIN stats : stats[g].count > 0} |->
            RMul(RDiv(stats[genre].total_rating, RInt(stats[genre].count)),
                 RAdd(RInt(1), Rat(stats[genre].count, 10)))]

(***************************************************************************)
(* get_watched_movies, extract_user_plots                                  *)
(***************************************************************************)
\* the watched titles lowered but not stripped
GetWatchedMovies_NoStrip(user_data) ==
    {Lower(user_data[i]["Title"]) :
        i \in {j \in 1..Len(user_data) : HasText(user_data[j], "Title")}}

\* lines 74-80
GetWatchedMovies(user_data) ==
    {Strip(Lower(user_data[i]["Title"])) :
        i \in {j \in 1..Len(user_data) : HasText(user_data[j], "Title")}}

\* lines 82-88: ' '.join of the plots that are neither empty nor 'N/A'
RECURSIVE JoinWith(_, _)
JoinWith(parts, sep) ==
    IF parts = <<>> THEN <<>>
    ELSE IF Len(parts) = 1 THEN parts[1]
    ELSE parts[1] \o sep \o JoinWith(Tail(parts), sep)

ExtractUserPlots(user_data) ==
    LET HasPlot(movie) == HasText(movie, "Plot") /\ movie["Plot"] # <<"N/A">>
        movies == SelectSeq(user_data, HasPlot)
    IN  JoinWith([i \in 1..Len(movies) |-> movies[i]["Plot"]], <<" ">>)

(***************************************************************************)
(* utils.calculate_plot_similarity                                         *)
(***************************************************************************)
\* the tokens matched by \b[a-zA-Z]{3,}\b once lowered
LongWords == {"the", "and", "war", "hero", "love"}
\* utils.py lines 14-15, the words of three letters or more
CommonWords == {"the", "and", "but", "for", "with", "are", "was", "were", "been",
                "have", "has", "had", "will", "would", "could", "should"}

WordsOf(text) == ({LowerTok(text[i]) : i \in 1..Len(text)} \cap LongWords) \ CommonWords

\* utils.py lines 9-29
CalculatePlotSimilarity(movie_extract, user_plots) ==
    IF movie_extract = <<>> \/ user_plots = <<>> THEN Zero
    ELSE LET movie_words == WordsOf(movie_extract)
             user_words == WordsOf(user_plots)
         IN  IF movie_words = {} \/ user_words = {} THEN Zero
             ELSE Rat(Cardinality(movie_words \cap user_words),
                      Cardinality(movie_words \cup user_words))

(***************************************************************************)
(* _extract_movie_rating, _extract_movie_actors, get_actor_overlap_score   *)
(***************************************************************************)
\* lines 90-99; float() may raise
ExtractMovieRating(movie) ==
    IF HasTruthy(movie, "letterboxRating") THEN ToFloat(movie["letterboxRating"])
    ELSE IF HasTruthy(movie, "imdbRating") /\ NotNA(movie["imdbRating"])
         THEN ToFloat(movie["imdbRating"])
    ELSE IF HasTruthy(movie, "Rating") THEN ToFloat(movie["Rating"])
    ELSE Ok(Zero)

ActorFields == <<"Actors", "actors", "cast", "Cast">>

\* the stripped, non-empty pieces of a comma-separated str
StrippedPieces(text) ==
    LET pieces == Split(text)
        stripped == [i \in 1..Len(pieces) |-> Strip(pieces[i])]
        NonEmpty(a) == a # <<>>
    IN  SelectSeq(stripped, NonEmpty)

\* the stripped, non-empty entries of a list of str
StrippedEntries(entries) ==
    LET stripped == [i \in 1..Len(entries) |-> Strip(entries[i])]
        NonEmpty(a) == a # <<>>
    IN  SelectSeq(stripped, NonEmpty)

\* lines 101-115
ExtractMovieActors(movie) ==
    LET usable == {i \in 1..Len(ActorFields) :
                      /\ HasTruthy(movie, ActorFields[i])
                      /\ NotNA(movie[ActorFields[i]])}
    IN  IF usable = {} THEN <<>>
        ELSE LET actors_field == movie[ActorFields[CHOOSE i \in usable : \A j \in usable : i <= j]]
             IN  IF actors_field.t = "list" THEN StrippedEntries(actors_field.v)
                 ELSE StrippedPieces(actors_field.v)

\* lines 194-207 for one user movie: its first five actors enter the table
RECURSIVE AddActors(_, _, _, _)
AddActors(table, actors, i, rating) ==
    IF i > Min2(Len(actors), 5) THEN table
    ELSE LET actor_key == Lower(actors[i])
             position_weight == RSub(RInt(1), RMul(RInt(i - 1), Rat(15, 100)))
             rating_weight == RDiv(rating, RInt(5))
             final_weight == RMul(position_weight, rating_weight)
             old == IF actor_key \in DOMAIN table THEN table[actor_key]
                    ELSE [total_weight |-> Zero, movie_count |-> 0]
             new == [total_weight |-> RAdd(old.total_weight, final_weight),
                     movie_count |-> old.movie_count + 1]
         IN  AddActors([a \in DOMAIN table \cup {actor_key} |->
                           IF a = actor_key THEN new ELSE table[a]],
                       actors, i + 1, rating)

NoActors == [a \in {} |-> [total_weight |-> Zero, movie_count |-> 0]]

\* lines 181-207 over one list of user movies; the outcome of the first
\* float() that raises is the outcome of the whole
RECURSIVE ActorTable(_, _)
ActorTable(user_data, table) ==
    IF user_data = <<>> THEN Ok(table)
    ELSE LET movie == Head(user_data)
             rating == ExtractMovieRating(movie)
         IN  IF ~rating.ok THEN [ok |-> FALSE, v |-> table]
             ELSE IF rating.v[1] = 0 THEN ActorTable(Tail(user_data), table)
             ELSE ActorTable(Tail(user_data),
                             AddActors(table, ExtractMovieActors(movie), 1, rating.v))

\* lines 183-184: both users, the first user's movies first
CombinedActorScores(user1_data, user2_data) ==
    ActorTable(user1_data \o user2_data, NoActors)

\* lines 171-176: the set of lowered actor names of the candidate
MovieActorSet(movie_actors) ==
    LET names == StrippedPieces(movie_actors)
    IN  {Lower(names[i]) : i \in 1..Len(names)}

\* lines 225-230
BaseScore(matches_found) ==
    IF matches_found = 1 THEN RInt(1)
    ELSE IF matches_found <= 3 THEN Rat(6, 10)
    ELSE Rat(3, 10)

\* lines 212-233: the loop over the candidate's actors, taken in the order
\* in which the set yields them
RECURSIVE MatchLoop(_, _, _, _)
MatchLoop(order, table, total_score, matches_found) ==
    IF order = <<>> THEN total_score
    ELSE LET movie_actor == Head(order)
         IN  IF movie_actor \in DOMAIN table
             THEN LET actor_data == table[movie_actor]
                      avg_weight == RDiv(actor_data.total_weight, RInt(actor_data.movie_count))
                      frequency_bonus == RMin(Rat(actor_data.movie_count, 3), Rat(3, 2))
                      actor_importance == RMul(avg_weight, frequency_bonus)
                      actor_score == RMul(BaseScore(matches_found + 1), actor_importance)
                  IN  MatchLoop(Tail(order), table, RAdd(total_score, actor_score),
                                matches_found + 1)
             ELSE MatchLoop(Tail(order), table, total_score, matches_found)

\* lines 166-237; order is the iteration order of movie_actor_set
GetActorOverlapScore(movie_actors, user1_data, user2_data, order) ==
    IF movie_actors = <<>> \/ movie_actors = <<"N/A">> THEN Ok(Zero)
    ELSE IF MovieActorSet(movie_actors) = {} THEN Ok(Zero)
    ELSE LET table == CombinedActorScores(user1_data, user2_data)
         IN  IF ~table.ok THEN Raised
             ELSE Ok(RMin(MatchLoop(order, table.v, Zero, 0), RInt(3)))

(***************************************************************************)
(* get_top_actors_for_user                                                 *)
(***************************************************************************)
\* lines 128-129: the defaultdict, with the order in which its keys came in
NoActorScores ==
    [order |-> <<>>, stats |-> [a \in {} |-> [count |-> 0, total_rating |-> Zero, weight |-> Zero]]]

\* lines 141-151 for one user movie: its first five actors
RECURSIVE AddActorScores(_, _, _, _)
AddActorScores(actor_scores, actors, i, rating) ==
    IF i > Min2(Len(actors), 5) THEN actor_scores
    ELSE LET actor_key == Lower(actors[i])
             position_weight == RSub(RInt(1), RMul(RInt(i - 1), Rat(15, 100)))
             weighted_rating == RMul(rating, position_weight)
             known == actor_key \in DOMAIN actor_scores.stats
             old == IF known THEN actor_scores.stats[actor_key]
                    ELSE [count |-> 0, total_rating |-> Zero, weight |-> Zero]
             new == [count |-> old.count + 1,
                     total_rating |-> RAdd(old.total_rating, weighted_rating),
                     weight |-> RAdd(old.weight, position_weight)]
         IN  AddActorScores(
                 [order |-> IF known THEN actor_scores.order
                            ELSE Append(actor_scores.order, actor_key),
                  stats |-> [a \in DOMAIN actor_scores.stats \cup {actor_key} |->
                                IF a = actor_key THEN new ELSE actor_scores.stats[a]]],
                 actors, i + 1, rating)

\* lines 131-151; the exception of _extract_movie_rating leaves the function
RECURSIVE ActorScores(_, _)
ActorScores(user_data, actor_scores) ==
    IF user_data = <<>> THEN Ok(actor_scores)
    ELSE LET movie == Head(user_data)
             rating == ExtractMovieRating(movie)
         IN  IF ~rating.ok THEN [ok |-> FALSE, v |-> actor_scores]
             ELSE IF rating.v[1] = 0 THEN ActorScores(Tail(user_data), actor_scores)
             ELSE ActorScores(Tail(user_data),
                              AddActorScores(actor_scores, ExtractMovieActors(movie), 1,
                                             rating.v))

\* lines 155: an actor is exported from two appearances on
EXPORT_MIN_COUNT == 2

\* line 155
Exported(stats) == stats.count >= EXPORT_MIN_COUNT

\* lines 156-159
ActorFinalScore(stats) ==
    LET avg_rating == IF RGt(stats.weight, Zero) THEN RDiv(stats.total_rating, stats.weight)
                      ELSE Zero
        frequency_bonus == RMin(Rat(stats.count, 5), RInt(2))
    IN  RMul(avg_rating, frequency_bonus)

\* lines 117-164: the scores of the exported actors, the top_count highest
GetTopActorsForUser(user_data, top_count) ==
    LET actor_scores == ActorScores(user_data, NoActorScores)
    IN  IF ~actor_scores.ok THEN [ok |-> FALSE, v |-> [a \in {} |-> Zero]]
        ELSE LET IsExported(a) == Exported(actor_scores.v.stats[a])
                 keys == SelectSeq(actor_scores.v.order, IsExported)
                 scores == [i \in 1..Len(keys) |-> <<ActorFinalScore(actor_scores.v.stats[keys[i]])>>]
                 sorted_actors == SortDescByKeys(keys, scores)
                 top == SubSeq(sorted_actors, 1, Min2(top_count, Len(sorted_actors)))
             IN  Ok([a \in Range(top) |-> ActorFinalScore(actor_scores.v.stats[a])])

(***************************************************************************)
(* calculate_movie_score                                                   *)
(***************************************************************************)
MIN_IMDB_RATING == 5
MAX_PLOT_SCORE == 5
\* line 303
CURRENT_YEAR == 2025

\* lines 252-268
GenreScore(movie, common_genres) ==
    IF "genres" \in DOMAIN movie /\ movie.genres # <<>>
    THEN LET InCommon(genre) == genre \in DOMAIN common_genres
             matching_genres == SelectSeq(movie.genres, InCommon)
             genre_score == SeqSum([i \in 1..Len(matching_genres) |->
                                       common_genres[matching_genres[i]]])
             averaged == IF matching_genres # <<>>
                         THEN RDiv(RDiv(genre_score, RInt(Len(matching_genres))), RInt(2))
                         ELSE Zero
             genre_diversity_bonus ==
                 RDiv(RMin(RMul(RInt(Len(matching_genres)), Rat(1, 2)), RInt(2)), RInt(2))
         IN  RAdd(averaged, genre_diversity_bonus)
    ELSE Zero

\* lines 271-276
PlotScore(movie, user1_plots, user2_plots) ==
    IF HasText(movie, "extract")
    THEN RMin(RMul(CalculatePlotSimilarity(movie["extract"],
                                            user1_plots \o <<" ">> \o user2_plots),
                   RInt(100)),
              RInt(MAX_PLOT_SCORE))
    ELSE Zero

\* line 279-285: the candidate's actors as one str; cast is a list, Actors a str
ActorString(movie) ==
    IF "cast" \in DOMAIN movie /\ movie["cast"] # <<>>
    THEN JoinWith(movie["cast"], <<",", " ">>)
    ELSE IF "Actors" \in DOMAIN movie THEN movie["Actors"]
    ELSE <<>>

\* lines 291-297
ImdbBonus(movie) ==
    IF HasTruthy(movie, "imdb_rating") /\ NotNA(movie["imdb_rating"])
    THEN LET imdb_rating == ToFloat(movie["imdb_rating"])
         IN  IF imdb_rating.ok /\ RGt(imdb_rating.v, RInt(MIN_IMDB_RATING))
             THEN RMul(RSub(imdb_rating.v, RInt(MIN_IMDB_RATING)), Rat(1, 2))
             ELSE Zero
    ELSE Zero

\* the bonus with the age of a recent movie added instead of subtracted
RecencyOfYear_AgeAdded(year) ==
    IF year >= 2020
    THEN RMax(RAdd(RInt(3), RMul(RInt(CURRENT_YEAR - year), Rat(2, 10))), RInt(2))
    ELSE IF year >= 2010 THEN RAdd(RInt(1), RMul(RInt(year - 2010), Rat(1, 10)))
    ELSE IF year >= 2000 THEN RAdd(Rat(2, 10), RMul(RInt(year - 2000), Rat(8, 100)))
    ELSE Zero

\* lines 305-315
RecencyOfYear(year) ==
    IF year >= 2020
    THEN RMax(RSub(RInt(3), RMul(RInt(CURRENT_YEAR - year), Rat(2, 10))), RInt(2))
    ELSE IF year >= 2010 THEN RAdd(RInt(1), RMul(RInt(year - 2010), Rat(1, 10)))
    ELSE IF year >= 2000 THEN RAdd(Rat(2, 10), RMul(RInt(year - 2000), Rat(8, 100)))
    ELSE Zero

\* lines 300-317
RecencyBonus(movie) ==
    IF HasTruthy(movie, "year")
    THEN LET year == ToInt(movie["year"])
         IN  IF year.ok THEN RecencyOfYear(year.v) ELSE Zero
    ELSE Zero

\* lines 239-319; raises when get_actor_overlap_score does
CalculateMovieScore(movie, common_genres, user1_plots, user2_plots, user1_data, user2_data, order) ==
    LET actor_string == ActorString(movie)
        actor_score == IF actor_string # <<>>
                       THEN GetActorOverlapScore(actor_string, user1_data, user2_data, order)
                       ELSE Ok(Zero)
    IN  [ok |-> actor_score.ok,
         v  |-> [genre_score |-> GenreScore(movie, common_genres),
                 plot_score |-> PlotScore(movie, user1_plots, user2_plots),
                 actor_score |-> actor_score.v,
                 imdb_bonus |-> ImdbBonus(movie),
                 recency_bonus |-> RecencyBonus(movie)]]

GENRE_WEIGHT == Rat(2, 10)
PLOT_WEIGHT == Rat(4, 10)
ACTOR_WEIGHT == Rat(4, 10)
IMDB_BONUS_WEIGHT == Rat(4, 10)

\* lines 527-533
CombinedScore(scores) ==
    RAdd(RAdd(RAdd(RAdd(RMul(scores.genre_score, GENRE_WEIGHT),
                        RMul(scores.plot_score, PLOT_WEIGHT)),
                   RMul(scores.actor_score, ACTOR_WEIGHT)),
              RMul(scores.imdb_bonus, IMDB_BONUS_WEIGHT)),
         scores.recency_bonus)

(***************************************************************************)
(* blend_movies: the qualification gate, the record of a candidate, the    *)
(* sort                                                                    *)
(***************************************************************************)
\* line 518
MIN_VOTES == 1000

\* lines 495-497
PassesTitleGate(movie, watched1, watched2) ==
    LET movie_title == Strip(Lower(IF "title" \in DOMAIN movie THEN movie["title"] ELSE <<>>))
    IN  movie_title \notin watched1 /\ movie_title \notin watched2

\* the genre gate without the look at the common genres
PassesGenreGate_AnyGenre(movie, common_genres) == MovieGenres(movie) # <<>>

\* lines 499-510
PassesGenreGate(movie, common_genres) ==
    LET movie_genres == MovieGenres(movie)
        normalized_common_genres == {Strip(g) : g \in DOMAIN common_genres}
    IN  /\ movie_genres # <<>>
        /\ \E i \in 1..Len(movie_genres) : Strip(movie_genres[i]) \in normalized_common_genres

\* lines 513-515; an exception of float() is caught at line 520
PassesRatingGate(movie) ==
    LET imdb_rating == ToFloat(IF "imdb_rating" \in DOMAIN movie
                               THEN movie["imdb_rating"] ELSE Num(Zero))
    IN  imdb_rating.ok /\ RGe(imdb_rating.v, RInt(MIN_IMDB_RATING))

\* the same comparison one vote off
VotesAtOrBelowThreshold(votes) == RLe(votes, RInt(MIN_VOTES))

\* lines 517-519: the comparison is strict below the threshold
VotesBelowThreshold(votes) == RLt(votes, RInt(MIN_VOTES))

\* lines 517-521; comparing a str or None with 1000 raises TypeError, caught
PassesVotesGate(movie) ==
    LET movie_votes == IF "imdb_votes" \in DOMAIN movie THEN movie["imdb_votes"] ELSE Num(Zero)
    IN  movie_votes.t = "num" /\ ~VotesBelowThreshold(movie_votes.v)

\* lines 495-521
PassesGate(movie, common_genres, watched1, watched2) ==
    /\ PassesTitleGate(movie, watched1, watched2)
    /\ PassesGenreGate(movie, common_genres)
    /\ PassesRatingGate(movie)
    /\ PassesVotesGate(movie)

\* str() of a field inside an f-string
FormatValue(x) == IF x.t = "num" THEN <<ToString(x.v[1])>> ELSE x.v

\* the key with the imdb_id taken before the year
UniqueKey_IdFirst(movie, position) ==
    LET title == IF "title" \in DOMAIN movie THEN movie["title"] ELSE <<"Unknown">>
    IN  IF HasText(movie, "imdb_id") THEN title \o <<"_">> \o movie["imdb_id"]
        ELSE IF HasTruthy(movie, "year") THEN title \o <<"_">> \o FormatValue(movie["year"])
        ELSE title \o <<"_", ToString(position)>>

\* lines 541-549
UniqueKey(movie, position) ==
    LET title == IF "title" \in DOMAIN movie THEN movie["title"] ELSE <<"Unknown">>
    IN  IF HasTruthy(movie, "year") THEN title \o <<"_">> \o FormatValue(movie["year"])
        ELSE IF HasText(movie, "imdb_id") THEN title \o <<"_">> \o movie["imdb_id"]
        ELSE title \o <<"_", ToString(position)>>

\* lines 536-551: the copy of the database record with the scores on it
MovieResult(movie, scores, position) ==
    [genre_score |-> scores.genre_score,
     plot_score |-> scores.plot_score,
     actor_score |-> scores.actor_score,
     imdb_bonus |-> scores.imdb_bonus,
     recency_bonus |-> scores.recency_bonus,
     combined_score |-> CombinedScore(scores),
     unique_key |-> UniqueKey(movie, position)] @@ movie

\* the database when the score fields are written to the record itself
DatabaseWithoutCopy(database, index, movie_result) ==
    [database EXCEPT ![index] = movie_result]

\* line 536: movie.copy() is a new dict, the fields of lines 537-551 are
\* written to it, and the record of the database keeps its keys and values
DatabaseAfterCopy(database, index, movie_result) == database

\* the sort key with the two tie-breaks left out
SortKey_ScoreOnly(movie) == <<movie["combined_score"]>>

\* lines 555-560
SortKey(movie) ==
    <<movie["combined_score"],
      IF "imdb_rating" \in DOMAIN movie /\ NotNA(movie["imdb_rating"])
      THEN ToFloat(movie["imdb_rating"]).v ELSE Zero,
      IF HasTruthy(movie, "imdb_votes") THEN RInt(ToInt(movie["imdb_votes"]).v) ELSE Zero>>

\* lines 555-560
SortCandidates(candidates) ==
    SortDescByKeys(candidates, [i \in 1..Len(candidates) |-> SortKey(candidates[i])])

(***************************************************************************)
(* State                                                                   *)
(***************************************************************************)
VARIABLES
    pc,                 \* where the call in progress stands
    user1_weights,      \* get_common_genres: its two arguments
    user2_weights,
    genres_fwd,         \* get_common_genres(user1_weights, user2_weights)
    genres_rev,         \* get_common_genres(user2_weights, user1_weights)
    candidate_movies,   \* apply_genre_diversity: its arguments
    common_genres,
    cg_order,           \* insertion order of the keys of common_genres
    max_rec,            \* Config.MAX_RECOMMENDATIONS as configured
    genre_groups,       \* apply_genre_diversity: its locals
    available_genres,
    genre_targets,
    sorted_genres,
    genre_indices,
    balanced_movies,
    last_genre,
    consecutive_count,
    relaxed_picks,      \* positions of balanced_movies filled by lines 423-431
    result,             \* the list returned
    user1_data,         \* blend_movies: its arguments
    user2_data,
    movies_database,    \* RecommendationEngine.movies_database
    db_index,           \* blend_movies: the database record the loop is at
    user1_watched,      \* blend_movies: its locals
    user2_watched,
    scored,             \* the records calculate_movie_score was called on
    movie_actors,       \* get_actor_overlap_score: its first argument
    top_actors,         \* get_top_actors_for_user(user1_data)
    actor_table,        \* get_actor_overlap_score: combined_actor_scores
    overlap_score,      \* get_actor_overlap_score(movie_actors, user1_data, user2_data)
    api_keys,           \* OMDBClient: len(self.api_keys)
    current_key_index,
    consecutive_failures,
    failed_keys,        \* indices of the keys that failed since the last Response 'True'
    requests_sent,      \* session.get calls made by the client so far
    movies_left,        \* enrich_movies_batch: movies the loop has not reached
    lookup,             \* get_movie_data: 1 or 2 for its first or second request, 0 outside it
    calls_left,         \* calls the client will still receive
    user1_file,         \* POST /blend/test: the files the handler opens
    user2_file,
    database_file,
    blend_raises,       \* does blend_movies raise on the loaded data
    in_flight,          \* the exception being raised in the handler
    response_status     \* the HTTP status the caller receives, 0 before the answer

genreVars == <<user1_weights, user2_weights, genres_fwd, genres_rev>>
inputVars == <<candidate_movies, common_genres, cg_order, max_rec>>
setupVars == <<genre_groups, available_genres, genre_targets, sorted_genres>>
loopVars == <<genre_indices, balanced_movies, last_genre, consecutive_count, relaxed_picks>>
blendVars == <<user1_data, user2_data, movies_database, db_index,
               user1_watched, user2_watched, scored>>
actorVars == <<movie_actors, top_actors, actor_table, overlap_score>>
clientVars == <<api_keys, current_key_index, consecutive_failures, failed_keys,
                requests_sent, movies_left, lookup, calls_left>>
handlerVars == <<user1_file, user2_file, database_file, blend_raises, in_flight,
                 response_status>>
vars == <<pc, genreVars, inputVars, setupVars, loopVars, result, blendVars, actorVars,
          clientVars, handlerVars>>

EmptyMap == [g \in {} |-> Zero]

GenresIdle ==
    /\ user1_weights = EmptyMap
    /\ user2_weights = EmptyMap
    /\ genres_fwd = EmptyMap
    /\ genres_rev = EmptyMap

ActorsIdle ==
    /\ movie_actors = <<>>
    /\ top_actors = Ok(EmptyMap)
    /\ actor_table = Ok(NoActors)
    /\ overlap_score = Ok(Zero)

BlendIdle ==
    /\ user1_data = <<>>
    /\ user2_data = <<>>
    /\ movies_database = <<>>
    /\ db_index = 0
    /\ user1_watched = {}
    /\ user2_watched = {}
    /\ scored = {}

ClientIdle ==
    /\ api_keys = 0
    /\ current_key_index = 0
    /\ consecutive_failures = 0
    /\ failed_keys = {}
    /\ requests_sent = 0
    /\ movies_left = 0
    /\ lookup = 0
    /\ calls_left = 0

\* no exception is being raised
NoException == [class |-> "none", status_code |-> 0]

HandlerIdle ==
    /\ user1_file = "ok"
    /\ user2_file = "ok"
    /\ database_file = "ok"
    /\ blend_raises = FALSE
    /\ in_flight = NoException
    /\ response_status = 0

LocalsIdle ==
    /\ genre_groups = EmptyMap
    /\ available_genres = <<>>
    /\ genre_targets = EmptyMap
    /\ sorted_genres = <<>>
    /\ genre_indices = EmptyMap
    /\ balanced_movies = <<>>
    /\ last_genre = None
    /\ consecutive_count = 0
    /\ relaxed_picks = {}
    /\ result = <<>>

(***************************************************************************)
(* Inputs                                                                  *)
(***************************************************************************)
Action == <<"Action">>
Drama == <<"Drama">>
Horror == <<"Horror">>

\* every dict with keys among Keys and values among Values
Dicts(Keys, Values) == UNION {[D -> Values] : D \in SUBSET Keys}

MaxWeightHalves == 3
\* genre weights handed to get_common_genres: -1/2, 0, 1/2, 1, ...
WeightChoices == {Rat(k, 2) : k \in (0 - 1)..MaxWeightHalves}

MaxExtra == 1
\* lengths of the runs a candidate list is made of
BlockLens ==
    {1} \cup {DIVERSITY_THRESHOLD \div 2 + k : k \in 0..MaxExtra}

\* genre lists of candidates
GenreLists == {<<Action>>, <<Drama>>, <<Drama, Action>>, <<Horror>>, <<>>}

\* weights of a common-genre map
DivWeights == {RInt(5), RInt(60)}

ScoreOrders == {"desc", "asc"}

\* a candidate list: n1 movies with genre list g1, then n2 with g2; the
\* combined scores fall or rise along the list
CandidateList(g1, n1, g2, n2, scores) ==
    [i \in 1..(n1 + n2) |->
        [id |-> i,
         genres |-> IF i <= n1 THEN g1 ELSE g2,
         combined_score |-> IF scores = "desc" THEN RInt(n1 + n2 + 1 - i) ELSE RInt(i)]]

(***************************************************************************)
(* get_common_genres as a call                                             *)
(***************************************************************************)
InitGenres ==
    /\ pc = "genres_call"
    /\ user1_weights \in Dicts({Action, Drama}, WeightChoices)
    /\ user2_weights \in Dicts({Action, Drama}, WeightChoices)
    /\ genres_fwd = EmptyMap
    /\ genres_rev = EmptyMap
    /\ candidate_movies = <<>>
    /\ common_genres = EmptyMap
    /\ cg_order = <<>>
    /\ max_rec = MAX_RECOMMENDATIONS
    /\ LocalsIdle
    /\ ClientIdle
    /\ HandlerIdle
    /\ BlendIdle
    /\ ActorsIdle

CallGetCommonGenres ==
    /\ pc = "genres_call"
    /\ genres_fwd' = GetCommonGenres(user1_weights, user2_weights)
    /\ genres_rev' = GetCommonGenres(user2_weights, user1_weights)
    /\ pc' = "genres_done"
    /\ UNCHANGED <<clientVars, handlerVars, user1_weights, user2_weights, actorVars, inputVars, setupVars, loopVars, result, blendVars>>

NextGenres == CallGetCommonGenres

SpecGenres == InitGenres /\ [][NextGenres]_vars

(***************************************************************************)
(* apply_genre_diversity as a call                                         *)
(***************************************************************************)
DivInputs ==
    /\ \E g1 \in GenreLists, g2 \in GenreLists, n1 \in BlockLens, n2 \in BlockLens,
          scores \in ScoreOrders :
          candidate_movies = CandidateList(g1, n1, g2, n2, scores)
    /\ common_genres \in Dicts({Action, Drama}, DivWeights)
    /\ cg_order \in Perms(DOMAIN common_genres)

InitDiv ==
    /\ pc = "div_entry"
    /\ DivInputs
    /\ max_rec = MAX_RECOMMENDATIONS
    /\ GenresIdle
    /\ ActorsIdle
    /\ LocalsIdle
    /\ ClientIdle
    /\ HandlerIdle
    /\ BlendIdle

\* lines 333-334
DivNoop ==
    /\ pc = "div_entry"
    /\ BelowThreshold(candidate_movies)
    /\ result' = candidate_movies
    /\ pc' = "done"
    /\ UNCHANGED <<clientVars, handlerVars, genreVars, actorVars, inputVars, setupVars, loopVars, blendVars>>

\* lines 336-397
DivSetup ==
    /\ pc = "div_entry"
    /\ ~BelowThreshold(candidate_movies)
    /\ LET ctx == DiversityContext(candidate_movies, common_genres, cg_order, max_rec)
           ls == LoopStart(ctx)
       IN  /\ genre_groups' = ctx.groups
           /\ available_genres' = ctx.available
           /\ genre_targets' = ctx.targets
           /\ sorted_genres' = ctx.sorted
           /\ genre_indices' = ls.indices
           /\ balanced_movies' = ls.balanced
           /\ last_genre' = ls.last
           /\ consecutive_count' = ls.count
    /\ relaxed_picks' = {}
    /\ pc' = "emit"
    /\ UNCHANGED <<clientVars, handlerVars, genreVars, actorVars, inputVars, result, blendVars>>

Ctx ==
    [groups |-> genre_groups, available |-> available_genres,
     targets |-> genre_targets, sorted |-> sorted_genres]

Ls ==
    [balanced |-> balanced_movies, indices |-> genre_indices,
     last |-> last_genre, count |-> consecutive_count]

SetLoop(ls) ==
    /\ balanced_movies' = ls.balanced
    /\ genre_indices' = ls.indices
    /\ last_genre' = ls.last
    /\ consecutive_count' = ls.count

\* lines 399-420: an iteration in which the scan of sorted_genres adds a movie
EmitScan ==
    /\ pc = "emit"
    /\ ~LoopOver(Ls, Ctx, max_rec)
    /\ ScanPick(sorted_genres, genre_groups, genre_indices, genre_targets,
                last_genre, consecutive_count) # None
    /\ SetLoop(LoopIter(Ls, Ctx))
    /\ UNCHANGED <<clientVars, handlerVars, pc, genreVars, actorVars, inputVars, setupVars, relaxed_picks, result, blendVars>>

\* lines 399-431: an iteration in which only the relaxed pass adds a movie
EmitRelaxed ==
    /\ pc = "emit"
    /\ ~LoopOver(Ls, Ctx, max_rec)
    /\ ScanPick(sorted_genres, genre_groups, genre_indices, genre_targets,
                last_genre, consecutive_count) = None
    /\ SetLoop(LoopIter(Ls, Ctx))
    /\ relaxed_picks' = relaxed_picks \cup {Len(balanced_movies) + 1}
    /\ UNCHANGED <<clientVars, handlerVars, pc, genreVars, actorVars, inputVars, setupVars, result, blendVars>>

\* line 399 or 433-434, then lines 439-449
DivReturn ==
    /\ pc = "emit"
    /\ LoopOver(Ls, Ctx, max_rec)
    /\ result' = Truncate(balanced_movies, max_rec)
    /\ pc' = "done"
    /\ UNCHANGED <<clientVars, handlerVars, genreVars, actorVars, inputVars, setupVars, loopVars, blendVars>>

NextDiv == DivNoop \/ DivSetup \/ EmitScan \/ EmitRelaxed \/ DivReturn

SpecDiv == InitDiv /\ [][NextDiv]_vars

\* the same call with Config.MAX_RECOMMENDATIONS set to other positive values
CapValues == {1, 2, MAX_RECOMMENDATIONS, MAX_RECOMMENDATIONS + 1, MAX_RECOMMENDATIONS + 3}

InitCap ==
    /\ pc = "div_entry"
    /\ \E g1 \in GenreLists, g2 \in {<<Action>>, <<Horror>>}, n1 \in BlockLens, n2 \in BlockLens :
          candidate_movies = CandidateList(g1, n1, g2, n2, "desc")
    /\ common_genres \in Dicts({Action}, DivWeights)
    /\ cg_order \in Perms(DOMAIN common_genres)
    /\ max_rec \in CapValues
    /\ GenresIdle
    /\ ActorsIdle
    /\ LocalsIdle
    /\ ClientIdle
    /\ HandlerIdle
    /\ BlendIdle

SpecCap == InitCap /\ [][NextDiv]_vars

\* the loop runs on: no other thread takes part, so an iteration that can be
\* taken is taken
SpecCapLive == InitCap /\ [][NextDiv]_vars /\ WF_vars(EmitScan \/ EmitRelaxed \/ DivReturn)

(***************************************************************************)
(* blend_movies as a call                                                  *)
(***************************************************************************)
\* user movies
UserA ==
    [Title |-> <<"A">>, Genre |-> <<"Action">>, letterboxRating |-> Num(RInt(5)),
     Plot |-> <<"War", " ", "hero">>, Actors |-> Str(<<"Ann", ",", " ", "Bob">>)]
UserB ==
    [Title |-> <<"B", " ">>, Genre |-> <<"Action", ",", " ", "Drama">>,
     letterboxRating |-> Num(Zero), imdbRating |-> Str(<<"7.5">>),
     Plot |-> <<"N/A">>, Actors |-> Str(<<"Bob">>)]
UserE ==
    [Title |-> <<>>, Genre |-> <<"Drama">>, Rating |-> Num(RInt(4))]
UserX ==
    [Title |-> <<"C">>, Genre |-> <<"Action">>, Rating |-> Str(<<"N/A">>),
     Actors |-> Str(<<"Ann">>)]

UserHistories == {<<UserA>>, <<UserA, UserB>>, <<UserE, UserB>>, <<UserX, UserA>>, <<UserE>>}

Absent == [t |-> "absent", v |-> <<>>]
NoFields == [k \in {} |-> <<>>]
\* a field holding a tagged value, or no field
Field(key, choice) == IF choice.t = "absent" THEN NoFields ELSE key :> choice
\* a field holding a str or a list, or no field
Plain(key, choice) == IF choice.t = "absent" THEN NoFields ELSE key :> choice.v

TitleChoices == {Str(<<"A">>), Str(<<" ", "b">>), Str(<<"Z">>), Str(<<>>)}
GenresChoices == {List(<<Action>>), List(<<<<" ", "Action">>>>), List(<<Horror, Drama>>), List(<<>>)}
RatingChoices == {Num(Rat(49, 10)), Num(RInt(5)), Num(RInt(8)), Str(<<"N/A">>)}
MaxVotesOver == 1
VotesChoices ==
    {Absent, Str(<<"5000">>)} \cup {Num(RInt(v)) : v \in (MIN_VOTES - 1)..(MIN_VOTES + MaxVotesOver)}
YearChoices == {Absent, Num(RInt(1990)), Num(RInt(2023))}

DbMovie(title, genres, rating, votes, year) ==
    Plain("title", title) @@ Plain("genres", genres) @@ Field("imdb_rating", rating)
        @@ Field("imdb_votes", votes) @@ Field("year", year)

\* every combination of the fields the gate reads
GateMovies ==
    {DbMovie(title, genres, rating, votes, year) :
        title \in TitleChoices, genres \in GenresChoices, rating \in RatingChoices,
        votes \in VotesChoices, year \in YearChoices}

\* movies that pass the gate for most users, to be ranked against each other
RankMovies ==
    {DbMovie(Str(<<"Z">>), List(<<Action>>), Num(RInt(8)), Num(RInt(5000)), Num(RInt(2023))),
     DbMovie(Str(<<"Z">>), List(<<Action>>), Num(RInt(8)), Num(RInt(1000)), Num(RInt(2023))),
     DbMovie(Str(<<"Y">>), List(<<Action>>), Str(<<"7">>), Num(RInt(2000)), Num(RInt(2010))),
     DbMovie(Str(<<"X">>), List(<<Drama, Action>>), Num(RInt(6)), Num(RInt(1000)), Num(RInt(2012))),
     DbMovie(Str(<<"W">>), List(<<Action>>), Num(RInt(7)), Num(RInt(3000)), Absent)
         @@ [cast |-> <<<<"Ann">>, <<"Bob", " ">>>>, extract |-> <<"war", " ", "love">>,
             imdb_id |-> <<"tt1">>],
     DbMovie(Str(<<"W">>), List(<<Drama>>), Num(RInt(7)), Num(RInt(3000)), Absent)
         @@ [Actors |-> <<"Cy", ",", "Bob">>],
     DbMovie(Absent, List(<<<<" ", "Action">>>>), Num(RInt(5)), Num(RInt(1000)), Absent),
     DbMovie(Str(<<"V">>), List(<<Action>>), Num(RInt(6)), Num(RInt(2000)), Num(RInt(1990)))
         @@ [imdb_id |-> <<"tt2">>]}

MaxDb == 2
\* sequences over S of length 2..n
RECURSIVE SeqsUpTo(_, _)
SeqsUpTo(S, n) ==
    IF n < 2 THEN {}
    ELSE SeqsUpTo(S, n - 1) \cup [1..n -> S]

Databases ==
    {<<>>} \cup {<<movie>> : movie \in GateMovies \cup RankMovies} \cup SeqsUpTo(RankMovies, MaxDb)

Init ==
    /\ pc = "blend_entry"
    /\ user1_data \in UserHistories
    /\ user2_data \in UserHistories
    /\ movies_database \in Databases
    /\ db_index = 0
    /\ user1_watched = {}
    /\ user2_watched = {}
    /\ scored = {}
    /\ candidate_movies = <<>>
    /\ common_genres = EmptyMap
    /\ cg_order = <<>>
    /\ max_rec = MAX_RECOMMENDATIONS
    /\ GenresIdle
    /\ ActorsIdle
    /\ LocalsIdle
    /\ ClientIdle
    /\ HandlerIdle

\* lines 466-492
BlendPrepare ==
    /\ pc = "blend_entry"
    /\ user1_watched' = GetWatchedMovies(user1_data)
    /\ user2_watched' = GetWatchedMovies(user2_data)
    /\ common_genres' = GetCommonGenres(CalculateGenreWeights(user1_data),
                                        CalculateGenreWeights(user2_data))
    /\ \E order \in Perms(DOMAIN GetCommonGenres(CalculateGenreWeights(user1_data),
                                                  CalculateGenreWeights(user2_data))) :
          cg_order' = order
    /\ candidate_movies' = <<>>
    /\ db_index' = 1
    /\ pc' = "blend_loop"
    /\ UNCHANGED <<clientVars, handlerVars, genreVars, actorVars, max_rec, setupVars, loopVars, result,
                   user1_data, user2_data, movies_database, scored>>

AtMovie == pc = "blend_loop" /\ db_index <= Len(movies_database)

\* the scores of the record the loop is at, the candidate's actor set being
\* iterated in the given order
ScoresAt(order) ==
    CalculateMovieScore(movies_database[db_index], common_genres,
                        ExtractUserPlots(user1_data), ExtractUserPlots(user2_data),
                        user1_data, user2_data, order)

ActorOrders == Perms(MovieActorSet(ActorString(movies_database[db_index])))

\* lines 494-521: a record that fails the gate
GateReject ==
    /\ AtMovie
    /\ ~PassesGate(movies_database[db_index], common_genres, user1_watched, user2_watched)
    /\ db_index' = db_index + 1
    /\ UNCHANGED <<clientVars, handlerVars, pc, genreVars, actorVars, inputVars, setupVars, loopVars, result,
                   user1_data, user2_data, movies_database, user1_watched, user2_watched,
                   scored>>

\* lines 523-552: a record that is scored above zero and appended
ScoreAccept ==
    /\ AtMovie
    /\ PassesGate(movies_database[db_index], common_genres, user1_watched, user2_watched)
    /\ \E order \in ActorOrders :
          /\ ScoresAt(order).ok
          /\ RGt(CombinedScore(ScoresAt(order).v), Zero)
          /\ candidate_movies' =
                 Append(candidate_movies,
                        MovieResult(movies_database[db_index], ScoresAt(order).v,
                                    Len(candidate_movies)))
          /\ movies_database' =
                 DatabaseAfterCopy(movies_database, db_index,
                                   MovieResult(movies_database[db_index], ScoresAt(order).v,
                                               Len(candidate_movies)))
    /\ scored' = scored \cup {db_index}
    /\ db_index' = db_index + 1
    /\ UNCHANGED <<clientVars, handlerVars, pc, genreVars, actorVars, common_genres, cg_order, max_rec, setupVars,
                   loopVars, result, user1_data, user2_data, user1_watched, user2_watched>>

\* lines 523-535: a record that is scored, at zero or less
ScoreDrop ==
    /\ AtMovie
    /\ PassesGate(movies_database[db_index], common_genres, user1_watched, user2_watched)
    /\ \E order \in ActorOrders :
          /\ ScoresAt(order).ok
          /\ ~RGt(CombinedScore(ScoresAt(order).v), Zero)
    /\ scored' = scored \cup {db_index}
    /\ db_index' = db_index + 1
    /\ UNCHANGED <<clientVars, handlerVars, pc, genreVars, actorVars, inputVars, setupVars, loopVars, result,
                   user1_data, user2_data, movies_database, user1_watched, user2_watched>>

\* line 523: the exception of get_actor_overlap_score leaves blend_movies
ScoreRaise ==
    /\ AtMovie
    /\ PassesGate(movies_database[db_index], common_genres, user1_watched, user2_watched)
    /\ \E order \in ActorOrders : ~ScoresAt(order).ok
    /\ scored' = scored \cup {db_index}
    /\ pc' = "blend_raised"
    /\ UNCHANGED <<clientVars, handlerVars, genreVars, actorVars, inputVars, setupVars, loopVars, result,
                   user1_data, user2_data, movies_database, db_index, user1_watched,
                   user2_watched>>

\* lines 555-578: the sort, apply_genre_diversity, the return
BlendFinish ==
    /\ pc = "blend_loop"
    /\ db_index > Len(movies_database)
    /\ candidate_movies' = SortCandidates(candidate_movies)
    /\ result' = ApplyGenreDiversity(SortCandidates(candidate_movies), common_genres,
                                     cg_order, max_rec)
    /\ pc' = "blend_done"
    /\ UNCHANGED <<clientVars, handlerVars, genreVars, actorVars, common_genres, cg_order, max_rec, setupVars, loopVars,
                   blendVars>>

Next == BlendPrepare \/ GateReject \/ ScoreAccept \/ ScoreDrop \/ ScoreRaise \/ BlendFinish

Spec == Init /\ [][Next]_vars

(***************************************************************************)
(* get_top_actors_for_user and get_actor_overlap_score as calls            *)
(***************************************************************************)
\* line 117: top_count as defaulted
TOP_COUNT == 10

\* user movies with casts: six billed actors; a movie rated 0; a cast given
\* as a list; one name billed twice
UserS ==
    [Title |-> <<"S">>, Genre |-> <<"Action">>, Rating |-> Num(RInt(4)),
     Actors |-> Str(<<"Ann", ",", "Bob", ",", "Cy", ",", "Dee", ",", "Eve", ",", "Fay">>)]
UserU ==
    [Title |-> <<"U">>, Genre |-> <<"Drama">>, letterboxRating |-> Num(Zero),
     Actors |-> Str(<<"Cy">>)]
UserC ==
    [Title |-> <<"C">>, Genre |-> <<"Drama">>, letterboxRating |-> Num(RInt(5)),
     cast |-> List(<<<<"Cy", " ">>, <<"Ann">>>>)]

UserD ==
    [Title |-> <<"D">>, Genre |-> <<"Action">>, letterboxRating |-> Num(RInt(5)),
     Actors |-> Str(<<"Dee", ",", " ", "Dee">>)]

ActorMovies == {UserA, UserB, UserE, UserX, UserS, UserU, UserC, UserD}

MaxHistory == 2
\* histories of at most MaxHistory movies
ActorHistories == {<<>>} \cup {<<m>> : m \in ActorMovies} \cup SeqsUpTo(ActorMovies, MaxHistory)

\* the actor string of a candidate
CastChoices ==
    {<<"Ann">>, <<"Cy", ",", " ", "Bob">>, <<"Fay", ",", "ann">>, <<"Dee">>, <<"N/A">>, <<>>}

InitActors ==
    /\ pc = "actors_call"
    /\ user1_data \in ActorHistories
    /\ user2_data \in ActorHistories
    /\ movie_actors \in CastChoices
    /\ top_actors = Ok(EmptyMap)
    /\ actor_table = Ok(NoActors)
    /\ overlap_score = Ok(Zero)
    /\ movies_database = <<>>
    /\ db_index = 0
    /\ user1_watched = {}
    /\ user2_watched = {}
    /\ scored = {}
    /\ candidate_movies = <<>>
    /\ common_genres = EmptyMap
    /\ cg_order = <<>>
    /\ max_rec = MAX_RECOMMENDATIONS
    /\ GenresIdle
    /\ LocalsIdle
    /\ ClientIdle
    /\ HandlerIdle

\* lines 117-164
CallGetTopActors ==
    /\ pc = "actors_call"
    /\ top_actors' = GetTopActorsForUser(user1_data, TOP_COUNT)
    /\ pc' = "actors_top"
    /\ UNCHANGED <<clientVars, handlerVars, genreVars, inputVars, setupVars, loopVars, result, blendVars,
                   movie_actors, actor_table, overlap_score>>

\* lines 166-237
CallGetActorOverlapScore ==
    /\ pc = "actors_top"
    /\ actor_table' = CombinedActorScores(user1_data, user2_data)
    /\ \E order \in Perms(MovieActorSet(movie_actors)) :
          overlap_score' = GetActorOverlapScore(movie_actors, user1_data, user2_data, order)
    /\ pc' = "actors_done"
    /\ UNCHANGED <<clientVars, handlerVars, genreVars, inputVars, setupVars, loopVars, result, blendVars,
                   movie_actors, top_actors>>

NextActors == CallGetTopActors \/ CallGetActorOverlapScore

SpecActors == InitActors /\ [][NextActors]_vars

(***************************************************************************)
(* Properties of apply_genre_diversity                                     *)
(***************************************************************************)
\* the bucket label of the k-th movie emitted
LabelAt(k) == BucketOf(balanced_movies[k], common_genres)

\* the last three movies emitted carry one label
ThreeInARow ==
    /\ Len(balanced_movies) >= 3
    /\ LabelAt(Len(balanced_movies)) = LabelAt(Len(balanced_movies) - 1)
    /\ LabelAt(Len(balanced_movies)) = LabelAt(Len(balanced_movies) - 2)

\* no bucket but the one last taken from holds a movie not yet emitted
OnlyLastBucketLeft ==
    \A genre \in DOMAIN genre_groups :
        genre # LabelAt(Len(balanced_movies))
            => genre_indices[genre] >= Len(genre_groups[genre])

\* C1: with more than 50 candidates, whenever a pick is the third in a row
\* from one bucket, every movie not yet emitted at that pick belongs to
\* that bucket.
C1_AntiConsecutive ==
    (pc = "emit" /\ ThreeInARow) => OnlyLastBucketLeft

\* C2: a list of at most 50 candidates, 50 included, is returned as it is;
\* with 51 candidates the interleaving runs and the list returned is the
\* interleaved one, which is not the input list.
C2_NoopBoundary ==
    pc = "done" =>
        /\ Len(candidate_movies) <= 50 => result = candidate_movies
        /\ Len(candidate_movies) = 51 =>
              /\ Len(balanced_movies) > 0
              /\ result = Truncate(balanced_movies, max_rec)
              /\ result # candidate_movies

C2_Witness ==
    /\ pc = "done"
    /\ Len(candidate_movies) = 51
    /\ relaxed_picks # {}
    /\ result # candidate_movies

\* C3: for every positive configured maximum, the list returned has at most
\* that many entries.
C3_OutputWithinCap ==
    pc = "done" => Len(result) <= max_rec

(***************************************************************************)
(* Properties of get_common_genres                                         *)
(***************************************************************************)
\* the genre names that are keys of both argument maps
SharedNames == {g \in DOMAIN user1_weights : g \in DOMAIN user2_weights}

\* the genres both users weight strictly above zero
PositiveInBoth ==
    {g \in SharedNames : user1_weights[g][1] > 0 /\ user2_weights[g][1] > 0}

\* C8: get_common_genres(A, B) and get_common_genres(B, A) have the same
\* keys and the same weight for every key.
C8_Commutative ==
    pc = "genres_done" => genres_fwd = genres_rev

C8_Witness ==
    /\ pc = "genres_done"
    /\ PositiveInBoth # {}
    /\ \E g \in PositiveInBoth : user1_weights[g] # user2_weights[g]
    /\ genres_fwd = genres_rev

\* C9: when no genre is weighted positively by both users but some name is
\* a key of both maps, the result has exactly the shared names as keys,
\* each with weight 5.0.
C9_FlatFallback ==
    (pc = "genres_done" /\ PositiveInBoth = {} /\ SharedNames # {}) =>
        /\ DOMAIN genres_fwd = SharedNames
        /\ \A g \in SharedNames : genres_fwd[g] = <<5, 1>>

C9_Witness ==
    /\ pc = "genres_done"
    /\ PositiveInBoth = {}
    /\ Cardinality(SharedNames) = 2
    /\ \E g \in SharedNames : user1_weights[g][1] > 0 /\ user2_weights[g][1] <= 0
    /\ \A g \in SharedNames : genres_fwd[g] = <<5, 1>>

\* C10: when some genre is weighted positively by both users, the keys of
\* the result are exactly those genres, each with weight (wA + wB) / 2;
\* and every weight of every map returned is strictly positive.
C10_WeightedIntersection ==
    pc = "genres_done" =>
        /\ PositiveInBoth # {} =>
              /\ DOMAIN genres_fwd = PositiveInBoth
              /\ \A g \in PositiveInBoth :
                    RMul(genres_fwd[g], RInt(2)) = RAdd(user1_weights[g], user2_weights[g])
        /\ \A g \in DOMAIN genres_fwd : genres_fwd[g][1] > 0

C10_Witness ==
    /\ pc = "genres_done"
    /\ PositiveInBoth # {}
    /\ PositiveInBoth # SharedNames
    /\ DOMAIN genres_fwd = PositiveInBoth

(***************************************************************************)
(* Properties of blend_movies                                              *)
(***************************************************************************)
\* the movies of both histories
HistoryMovies == Range(user1_data) \cup Range(user2_data)

\* a title lowercased and trimmed
Normalized(title) == Strip(Lower(title))

\* the record is the copy of that database movie with the scores added
IsCopyOf(record, movie) ==
    /\ DOMAIN movie \subseteq DOMAIN record
    /\ \A key \in DOMAIN movie : record[key] = movie[key]

\* C4: no movie of the result has a title that, lowercased and trimmed,
\* equals the lowercased, trimmed title of a movie of either history.
C4_NoHistoryTitle ==
    pc = "blend_done" =>
        \A k \in 1..Len(result) : \A seen \in HistoryMovies :
            ("title" \in DOMAIN result[k] /\ "Title" \in DOMAIN seen)
                => Normalized(result[k]["title"]) # Normalized(seen["Title"])

\* C4 as amended: the same for the movies of the histories whose Title is
\* not the empty string.
C4_NoWatchedTitle ==
    pc = "blend_done" =>
        \A k \in 1..Len(result) : \A seen \in HistoryMovies :
            ("title" \in DOMAIN result[k] /\ "Title" \in DOMAIN seen /\ seen["Title"] # <<>>)
                => Normalized(result[k]["title"]) # Normalized(seen["Title"])

\* a database movie that only the title gate keeps out, its title written
\* differently from the title in the history
C4_Witness ==
    /\ pc = "blend_done"
    /\ \E i \in 1..Len(movies_database) : \E seen \in HistoryMovies :
          /\ "title" \in DOMAIN movies_database[i]
          /\ seen["Title"] # <<>>
          /\ movies_database[i]["title"] # seen["Title"]
          /\ Lower(movies_database[i]["title"]) # Lower(seen["Title"])
          /\ Normalized(movies_database[i]["title"]) = Normalized(seen["Title"])
          /\ PassesGenreGate(movies_database[i], common_genres)
          /\ PassesRatingGate(movies_database[i])
          /\ PassesVotesGate(movies_database[i])
          /\ i \notin scored

\* the database movie passes the title, genre and rating gates
PassesEarlierGates(movie) ==
    /\ PassesTitleGate(movie, user1_watched, user2_watched)
    /\ PassesGenreGate(movie, common_genres)
    /\ PassesRatingGate(movie)

HasVoteCount(movie) == "imdb_votes" \in DOMAIN movie /\ movie["imdb_votes"].t = "num"

\* C5: a database movie that passes the title, genre and rating gates is
\* scored when its vote count is 1000 or more; with a vote count of 999 or
\* less, or none, it is not scored and no record of the result is its copy.
C5_VotesGateInclusive ==
    \A i \in 1..Len(movies_database) :
        (pc \in {"blend_loop", "blend_done"} /\ i < db_index
            /\ PassesEarlierGates(movies_database[i]))
        => LET movie == movies_database[i]
           IN  /\ (HasVoteCount(movie) /\ movie["imdb_votes"].v[1] >= 1000 * movie["imdb_votes"].v[2])
                      => i \in scored
               /\ ("imdb_votes" \notin DOMAIN movie
                      \/ (HasVoteCount(movie)
                            /\ movie["imdb_votes"].v[1] <= 999 * movie["imdb_votes"].v[2]))
                      => /\ i \notin scored
                         /\ \A k \in 1..Len(result) : ~IsCopyOf(result[k], movie)

C5_Witness ==
    /\ pc = "blend_done"
    /\ \E i \in 1..Len(movies_database) :
          /\ PassesEarlierGates(movies_database[i])
          /\ HasVoteCount(movies_database[i])
          /\ movies_database[i]["imdb_votes"].v = <<1000, 1>>
          /\ i \in scored
          /\ \E k \in 1..Len(result) : IsCopyOf(result[k], movies_database[i])

\* the tuple (combined_score, external rating, vote count) of a candidate
RankTuple(movie) ==
    <<movie["combined_score"], ToFloat(movie["imdb_rating"]).v, movie["imdb_votes"].v>>

\* C6: the list handed to apply_genre_diversity is ordered descending by
\* (combined_score, external rating, vote count): no movie of the list has
\* a greater tuple than the movie before it; with at most 50 candidates
\* this list is the result.
C6_SortedByRankTuple ==
    pc = "blend_done" =>
        /\ \A k \in 1..(Len(candidate_movies) - 1) :
              ~KeyGt(RankTuple(candidate_movies[k + 1]), RankTuple(candidate_movies[k]))
        /\ Len(candidate_movies) <= 50 => result = candidate_movies

\* two candidates with one combined score and one rating, the one with
\* more votes second in the database and first in the list
C6_Witness ==
    /\ pc = "blend_done"
    /\ Len(candidate_movies) = 2
    /\ candidate_movies[1]["combined_score"] = candidate_movies[2]["combined_score"]
    /\ RankTuple(candidate_movies[1])[2] = RankTuple(candidate_movies[2])[2]
    /\ RGt(RankTuple(candidate_movies[1])[3], RankTuple(candidate_movies[2])[3])
    /\ IsCopyOf(candidate_movies[1], movies_database[2])
    /\ IsCopyOf(candidate_movies[2], movies_database[1])

\* C7: every movie handed to apply_genre_diversity has a combined_score
\* above zero and a non-empty genre list of which at least one genre is a
\* key of the common-genre map.
C7_CandidatesQualified ==
    pc = "blend_done" =>
        \A k \in 1..Len(candidate_movies) :
            /\ candidate_movies[k]["combined_score"][1] > 0
            /\ "genres" \in DOMAIN candidate_movies[k]
            /\ candidate_movies[k]["genres"] # <<>>
            /\ \E i \in 1..Len(candidate_movies[k]["genres"]) :
                  candidate_movies[k]["genres"][i] \in DOMAIN common_genres


(***************************************************************************)
(* Properties of the scores                                                *)
(***************************************************************************)
\* the record the loop is at passes the gate and is about to be scored
AboutToScore ==
    /\ AtMovie
    /\ PassesGate(movies_database[db_index], common_genres, user1_watched, user2_watched)

\* C11: identical inputs give identical scores: the scores of the record
\* being scored are the same whatever order the candidate's actor set is
\* iterated in.
C11_OrderIndependentScores ==
    AboutToScore => \A o1 \in ActorOrders : \A o2 \in ActorOrders : ScoresAt(o1) = ScoresAt(o2)

\* a movie of a history has a rating field that float() cannot convert
HasNonNumericRating(movie) ==
    \E key \in {"letterboxRating", "imdbRating", "Rating"} :
        key \in DOMAIN movie /\ Truthy(movie[key]) /\ ~ToFloat(movie[key]).ok

\* C12: with a user movie whose rating field is present but non-numeric,
\* get_actor_overlap_score, and so blend_movies, completes without raising:
\* no exception leaves blend_movies.
C12_NonNumericRatingTolerated ==
    (\E seen \in HistoryMovies : HasNonNumericRating(seen)) => pc # "blend_raised"

(***************************************************************************)
(* Properties of the actor tables                                          *)
(***************************************************************************)
\* the movie has a rating that reads as a number other than 0
IsRated(movie) == ExtractMovieRating(movie).ok /\ ExtractMovieRating(movie).v[1] # 0

\* the lowered names of the actors of a user movie
ActorNames(movie) == {Lower(a) : a \in Range(ExtractMovieActors(movie))}

\* the rated movies of the history the actor appears in, by position
AppearsIn(user_data, actor) ==
    {j \in 1..Len(user_data) : IsRated(user_data[j]) /\ actor \in ActorNames(user_data[j])}

\* the actors that appear in exactly one rated movie of the history
SeenOnce(user_data) ==
    {actor \in UNION {ActorNames(user_data[j]) : j \in 1..Len(user_data)} :
        Cardinality(AppearsIn(user_data, actor)) = 1}

\* C13: an actor who appears in exactly one rated movie of the history is
\* not a key of the result of get_top_actors_for_user, and is a key of the
\* table of get_actor_overlap_score, which scores the match when the
\* candidate's cast holds the name.
C13_SingleAppearance ==
    pc = "actors_done" =>
        \A actor \in SeenOnce(user1_data) :
            /\ top_actors.ok => actor \notin DOMAIN top_actors.v
            /\ (actor_table.ok /\ overlap_score.ok /\ actor \in MovieActorSet(movie_actors))
                  => /\ actor \in DOMAIN actor_table.v
                     /\ RGt(overlap_score.v, Zero)

TitleOf(record) == IF "title" \in DOMAIN record THEN record["title"] ELSE <<"Unknown">>

HasYear(record) == "year" \in DOMAIN record /\ Truthy(record["year"])
HasImdbId(record) == "imdb_id" \in DOMAIN record /\ record["imdb_id"] # <<>>

\* the unique_key of the record is of the form its fields call for, n being
\* the number of candidates accepted before it
KeyFormFits(record, n) ==
    /\ HasYear(record)
          => record["unique_key"] = TitleOf(record) \o <<"_", ToString(record["year"].v[1])>>
    /\ (~HasYear(record) /\ HasImdbId(record))
          => record["unique_key"] = TitleOf(record) \o <<"_">> \o record["imdb_id"]
    /\ (~HasYear(record) /\ ~HasImdbId(record))
          => record["unique_key"] = TitleOf(record) \o <<"_", ToString(n)>>

\* C15: the unique_key of a record is title_year when it has a year,
\* otherwise title_imdbID when it has an imdb_id, otherwise title_N, N the
\* number of candidates accepted before it; every record returned carries
\* the key it was accepted with.
C15_UniqueKeyForm ==
    /\ pc = "blend_loop" =>
          \A k \in 1..Len(candidate_movies) : KeyFormFits(candidate_movies[k], k - 1)
    /\ pc = "blend_done" =>
          \A k \in 1..Len(result) :
              \E n \in 0..(Len(result) - 1) : KeyFormFits(result[k], n)

\* the first candidate has a year and an imdb_id and the key of the year;
\* the second has neither and the key of its position
C15_Witness ==
    /\ pc = "blend_loop"
    /\ Len(candidate_movies) = 2
    /\ HasYear(candidate_movies[1]) /\ HasImdbId(candidate_movies[1])
    /\ candidate_movies[1]["unique_key"] = <<"V", "_", "1990">>
    /\ ~HasYear(candidate_movies[2]) /\ ~HasImdbId(candidate_movies[2])
    /\ candidate_movies[2]["unique_key"] = TitleOf(candidate_movies[2]) \o <<"_", "1">>

\* every movie of the history is an 'Action' movie rated 5
OnlyActionAtFive(user_data) ==
    /\ user_data # <<>>
    /\ \A j \in 1..Len(user_data) :
          /\ "Genre" \in DOMAIN user_data[j] /\ user_data[j]["Genre"] = <<"Action">>
          /\ GenreRating(user_data[j]) = Ok(RInt(5))

\* the candidate of the example: ['Action'], rating 8.0, 5000 votes, year
\* 2023, no plot text, no cast, a title in neither history
IsExampleMovie(movie) ==
    /\ DOMAIN movie = {"title", "genres", "imdb_rating", "imdb_votes", "year"}
    /\ movie["genres"] = <<Action>>
    /\ movie["imdb_rating"] = Num(RInt(8))
    /\ movie["imdb_votes"] = Num(RInt(5000))
    /\ movie["year"] = Num(RInt(2023))
    /\ \A seen \in HistoryMovies : Normalized(seen["Title"]) # Normalized(movie["title"])

Qualifies(movie) ==
    /\ \A seen \in HistoryMovies :
          seen["Title"] # <<>>
              => Normalized(seen["Title"])
                     # Normalized(IF "title" \in DOMAIN movie THEN movie["title"] ELSE <<>>)
    /\ "genres" \in DOMAIN movie
    /\ \E i \in 1..Len(movie["genres"]) : \E g \in DOMAIN common_genres :
          Strip(movie["genres"][i]) = Strip(g)
    /\ "imdb_rating" \in DOMAIN movie
    /\ ToFloat(movie["imdb_rating"]).ok
    /\ RGe(ToFloat(movie["imdb_rating"]).v, RInt(5))
    /\ HasVoteCount(movie)
    /\ RGe(movie["imdb_votes"].v, RInt(1000))

NoneQualifies == \A i \in 1..Len(movies_database) : ~Qualifies(movies_database[i])

\* C17: when no database movie passes the qualification gate, the common
\* genres being empty or the database being empty or otherwise, no movie is
\* scored, no exception leaves blend_movies and the list returned is empty.
C17_EmptyWhenNoneQualifies ==
    (pc \in {"blend_loop", "blend_done", "blend_raised"} /\ NoneQualifies) =>
        /\ pc # "blend_raised"
        /\ scored = {}
        /\ candidate_movies = <<>>
        /\ pc = "blend_done" => result = <<>>

\* the users share no genre name and a record of the database meets every
\* other condition of the gate
C17_Witness ==
    /\ pc = "blend_done"
    /\ common_genres = EmptyMap
    /\ result = <<>>
    /\ \E i \in 1..Len(movies_database) :
          /\ PassesTitleGate(movies_database[i], user1_watched, user2_watched)
          /\ MovieGenres(movies_database[i]) # <<>>
          /\ PassesRatingGate(movies_database[i])
          /\ PassesVotesGate(movies_database[i])

(***************************************************************************)
(* Properties of the emission loop                                         *)
(***************************************************************************)
\* the iteration appends exactly one movie, one not emitted before
AppendsOneNewMovie ==
    /\ pc' = "emit"
    /\ Len(balanced_movies') = Len(balanced_movies) + 1
    /\ SubSeq(balanced_movies', 1, Len(balanced_movies)) = balanced_movies
    /\ balanced_movies'[Len(balanced_movies')] \in Range(candidate_movies)
    /\ balanced_movies'[Len(balanced_movies')] \notin Range(balanced_movies)

\* the loop is left, the output at the cap or every movie emitted
ExitsWhenDone ==
    /\ pc' = "done"
    /\ \/ Len(balanced_movies) >= max_rec
       \/ Range(balanced_movies) = Range(candidate_movies)

\* C18: every iteration of the emission loop appends exactly one movie not
\* yet emitted or leaves the loop; the loop is left only with the output at
\* the cap or with no movie left unemitted; and the loop is left in the end.
C18_LoopTerminates ==
    /\ [][pc = "emit" => (AppendsOneNewMovie \/ ExitsWhenDone)]_vars
    /\ (pc = "emit") ~> (pc = "done")

\* the loop was left with movies unemitted in no bucket, after a pick of
\* the relaxed pass
C18_Witness ==
    /\ pc = "done"
    /\ relaxed_picks # {}
    /\ Len(balanced_movies) < max_rec
    /\ Range(balanced_movies) = Range(candidate_movies)

\* the billing entries that count for the actor: <<movie, position>> over the
\* movies of both histories with a rating above 0, positions 1 to 5
BilledEntries(actor) ==
    LET all == user1_data \o user2_data
    IN  {e \in (1..Len(all)) \X (1..5) :
            /\ ExtractMovieRating(all[e[1]]).ok
            /\ RGt(ExtractMovieRating(all[e[1]]).v, Zero)
            /\ e[2] <= Len(ExtractMovieActors(all[e[1]]))
            /\ Lower(ExtractMovieActors(all[e[1]])[e[2]]) = actor}

\* the sum of 1.0 - 0.15 * i over the entries, i the 0-based position
RECURSIVE SumOfPositionWeights(_)
SumOfPositionWeights(entries) ==
    IF entries = {} THEN Zero
    ELSE LET e == CHOOSE x \in entries : TRUE
         IN  RAdd(RSub(RInt(1), RMul(Rat(15, 100), RInt(e[2] - 1))),
                  SumOfPositionWeights(entries \ {e}))

\* C19: in the combined actor table each of the first five billed actors of
\* a user movie rated above 0 adds 1.0 - 0.15 * i to the actor's
\* total_weight, i the 0-based billing position, and 1 to movie_count; no
\* other entry adds anything.
C19_PositionWeights ==
    (pc = "actors_done" /\ actor_table.ok) =>
        \A actor \in DOMAIN actor_table.v :
            /\ actor_table.v[actor].movie_count = Cardinality(BilledEntries(actor))
            /\ actor_table.v[actor].total_weight = SumOfPositionWeights(BilledEntries(actor))

(***************************************************************************)
(* Properties of the targets                                               *)
(***************************************************************************)
\* the buckets that hold a movie
NonEmptyBuckets == {genre \in DOMAIN genre_groups : Len(genre_groups[genre]) > 0}

\* the weight of a bucket: the common-genre weight, 1.0 for 'other'
BucketWeight(genre) == IF genre = Other THEN RInt(1) ELSE common_genres[genre]

\* the sum of the weights of a set of genre buckets
RECURSIVE SumOfWeights(_)
SumOfWeights(genres) ==
    IF genres = {} THEN Zero
    ELSE LET g == CHOOSE x \in genres : TRUE
         IN  RAdd(common_genres[g], SumOfWeights(genres \ {g}))

\* n is floor(weight / total_weight * cap) for the bucket
IsProportionalShare(n, genre) ==
    LET total_weight == RAdd(SumOfWeights(NonEmptyBuckets \ {Other}), RInt(1))
        share == RMul(RDiv(BucketWeight(genre), total_weight), RInt(max_rec))
    IN  RLe(RInt(n), share) /\ RLt(share, RInt(n + 1))

\* C20: with more than 50 candidates the target of every non-empty bucket
\* is at least 1 and at most the size of the bucket, and is
\* floor(weight / total_weight * cap) brought into that range.
C20_TargetsClamped ==
    (pc = "emit" /\ balanced_movies = <<>> /\ Len(candidate_movies) > 50) =>
        \A genre \in NonEmptyBuckets :
            /\ genre \in DOMAIN genre_targets
            /\ genre_targets[genre] >= 1
            /\ genre_targets[genre] <= Len(genre_groups[genre])
            /\ \E n \in 0..max_rec :
                  /\ IsProportionalShare(n, genre)
                  /\ genre_targets[genre]
                         = (IF n > Len(genre_groups[genre]) THEN Len(genre_groups[genre])
                            ELSE IF n < 1 THEN 1 ELSE n)

\* two buckets: one whose share is cut to its size, and 'other', whose
\* share of 0 is raised to 1
C20_Witness ==
    /\ pc = "emit"
    /\ balanced_movies = <<>>
    /\ Len(candidate_movies) > 50
    /\ \E g1 \in NonEmptyBuckets \ {Other} :
          /\ genre_targets[g1] = Len(genre_groups[g1])
          /\ ~IsProportionalShare(genre_targets[g1], g1)
    /\ Other \in NonEmptyBuckets
    /\ Len(genre_groups[Other]) > 1
    /\ genre_targets[Other] = 1
    /\ IsProportionalShare(0, Other)


(***************************************************************************)
(* C21: every candidate lands in exactly one bucket                        *)
(***************************************************************************)
\* the positions of a movie's genre list whose genre is a key of the map
MappedPositions(movie) ==
    {i \in 1..Len(movie.genres) : movie.genres[i] \in DOMAIN common_genres}

\* the bucket the movie belongs to: the heaviest mapped genre, the first
\* listed among equally heavy ones, 'other' without a mapped genre
ExpectedBucket(movie) ==
    LET mapped == MappedPositions(movie)
    IN  IF mapped = {} THEN Other
        ELSE LET best == CHOOSE i \in mapped :
                            \A j \in mapped :
                                \/ RGt(common_genres[movie.genres[i]], common_genres[movie.genres[j]])
                                \/ /\ common_genres[movie.genres[i]] = common_genres[movie.genres[j]]
                                   /\ i <= j
             IN  movie.genres[best]

\* how many entries of a bucket are the movie
TimesInBucket(movie, genre) ==
    Cardinality({i \in 1..Len(genre_groups[genre]) : genre_groups[genre][i] = movie})

\* C21: once the buckets are built, every candidate is in the bucket of its
\* heaviest common genre (first listed on a tie, 'other' without a common
\* genre) exactly once and in no other bucket, and the buckets hold nothing
\* else.
C21_OneBucketPerCandidate ==
    (pc = "emit" /\ balanced_movies = <<>>) =>
        /\ \A k \in 1..Len(candidate_movies) :
              \A genre \in DOMAIN genre_groups :
                  TimesInBucket(candidate_movies[k], genre)
                      = (IF genre = ExpectedBucket(candidate_movies[k]) THEN 1 ELSE 0)
        /\ \A genre \in DOMAIN genre_groups :
              \A i \in 1..Len(genre_groups[genre]) :
                  \E k \in 1..Len(candidate_movies) :
                      candidate_movies[k] = genre_groups[genre][i]

\* a movie listing Drama before Action with both weights equal sits in the
\* Drama bucket, and a movie without a common genre sits in 'other'
C21_Witness ==
    /\ pc = "emit"
    /\ balanced_movies = <<>>
    /\ {Action, Drama} \subseteq DOMAIN common_genres
    /\ common_genres[Action] = common_genres[Drama]
    /\ \E i \in 1..Len(genre_groups[Drama]) :
          genre_groups[Drama][i].genres = <<Drama, Action>>
    /\ Len(genre_groups[Other]) > 0

(***************************************************************************)
(* calculate_genre_weights as a call                                       *)
(***************************************************************************)
LetterboxChoices == {Absent, Str(<<>>), Num(Zero), Str(<<"N/A">>), Num(RInt(4))}
ImdbChoices == {Absent, Str(<<>>), Str(<<"N/A">>), Str(<<"N/A", " ">>), Str(<<"7.5">>)}
GenericChoices == {Absent, Str(<<>>), Num(Zero), Str(<<"N/A">>), Str(<<"8.0">>)}
YourChoices == {Absent, PyNone, Str(<<"N/A">>), Str(<<"7">>)}

\* a history movie of genre Action with any combination of rating fields
RatedMovie(letterbox, imdb, generic, your) ==
    [Genre |-> Action] @@ Field("letterboxRating", letterbox) @@ Field("imdbRating", imdb)
        @@ Field("Rating", generic) @@ Field("Your Rating", your)

InitWeights ==
    /\ pc = "weights_call"
    /\ \E letterbox \in LetterboxChoices, imdb \in ImdbChoices,
          generic \in GenericChoices, your \in YourChoices :
          user1_data = <<RatedMovie(letterbox, imdb, generic, your)>>
    /\ user2_data = <<>>
    /\ movies_database = <<>>
    /\ db_index = 0
    /\ user1_watched = {}
    /\ user2_watched = {}
    /\ scored = {}
    /\ candidate_movies = <<>>
    /\ common_genres = EmptyMap
    /\ cg_order = <<>>
    /\ max_rec = MAX_RECOMMENDATIONS
    /\ result = <<>>
    /\ GenresIdle
    /\ ActorsIdle
    /\ LocalsIdle
    /\ ClientIdle
    /\ HandlerIdle

\* lines 17-53
CallCalculateGenreWeights ==
    /\ pc = "weights_call"
    /\ user1_weights' = CalculateGenreWeights(user1_data)
    /\ pc' = "weights_done"
    /\ UNCHANGED <<clientVars, handlerVars, user2_weights, genres_fwd, genres_rev, actorVars, inputVars, setupVars, loopVars, result, blendVars>>

NextWeights == CallCalculateGenreWeights

SpecWeights == InitWeights /\ [][NextWeights]_vars

(***************************************************************************)
(* C22: the rating field calculate_genre_weights reads                     *)
(***************************************************************************)
RatingFieldOrder == <<"letterboxRating", "imdbRating", "Rating", "Your Rating">>

\* the field is present with a value Python does not take for empty ('',
\* None and 0 are empty), and imdbRating is not 'N/A'
IsUsableRating(movie, key) ==
    /\ key \in DOMAIN movie
    /\ movie[key] \notin {Str(<<>>), PyNone, Num(Zero)}
    /\ (key = "imdbRating" => movie[key] # Str(<<"N/A">>))

UsablePositions(movie) ==
    {i \in 1..Len(RatingFieldOrder) : IsUsableRating(movie, RatingFieldOrder[i])}

\* the weight of a genre seen once with the given rating
WeightOfOne(rating) == RMul(rating, Rat(11, 10))

\* C22: for a history of one Action movie the weight of Action comes from
\* the first of letterboxRating, imdbRating (unless 'N/A'), Rating,
\* Your Rating that is present and non-empty, whatever the later fields
\* hold, and from 5.0 when none is; when that field does not read as a
\* number the movie gives no weight at all.
C22_RatingPriority ==
    pc = "weights_done" =>
        LET movie == user1_data[1]
            usable == UsablePositions(movie)
        IN  IF usable = {} THEN user1_weights = Action :> WeightOfOne(RInt(5))
            ELSE LET first == CHOOSE i \in usable : \A j \in usable : i <= j
                     read == ToFloat(movie[RatingFieldOrder[first]])
                 IN  IF read.ok THEN user1_weights = Action :> WeightOfOne(read.v)
                     ELSE user1_weights = EmptyMap

\* imdbRating is 'N/A', Rating and Your Rating are both numbers: the weight
\* comes from Rating
C22_Witness ==
    /\ pc = "weights_done"
    /\ "letterboxRating" \notin DOMAIN user1_data[1]
    /\ "imdbRating" \in DOMAIN user1_data[1]
    /\ user1_data[1]["imdbRating"] = Str(<<"N/A">>)
    /\ "Rating" \in DOMAIN user1_data[1]
    /\ user1_data[1]["Rating"] = Str(<<"8.0">>)
    /\ "Your Rating" \in DOMAIN user1_data[1]
    /\ user1_data[1]["Your Rating"] = Str(<<"7">>)
    /\ user1_weights = Action :> Rat(44, 5)

(***************************************************************************)
(* OMDBClient: key rotation and failure tracking.  One client receives a   *)
(* sequence of calls, one at a time: enrich_movies_batch awaits every      *)
(* request before the next.                                                *)
(***************************************************************************)
\* Config.get_api_keys reads three settings
MAX_API_KEYS == 3
\* self.max_consecutive_failures
MAX_CONSECUTIVE_FAILURES == 3

\* movies in one call of enrich_movies_batch
MaxBatch == 2
\* calls one client receives
MaxCalls == 2

\* rotate_api_key without the modulus: the index stays where it is
RotateApiKey_Stay(index, keys) == index

\* lines 35-42
RotateApiKey(index, keys) == IF keys = 0 THEN index ELSE (index + 1) % keys

\* the entry test without the failure counter
BudgetSpent_NoKeysOnly(keys, failures) == keys = 0

\* lines 60-65: the tests that raise APIBudgetExhausted before any request
BudgetSpent(keys, failures) == keys = 0 \/ failures >= MAX_CONSECUTIVE_FAILURES

\* lines 78, 92, 109: the replies that count as a failure of the key
FailureKinds == {"unauthorized", "rate_limit", "network_error"}

\* no call is in progress on the client
BetweenCalls ==
    pc \in {"client_idle", "batch_returned", "batch_raised", "request_returned",
            "request_failed"}
        \/ (pc \in {"request_refused", "request_exhausted"} /\ lookup = 0)

\* lines 20-27
InitClient ==
    /\ pc = "client_idle"
    /\ api_keys \in 0..MAX_API_KEYS
    /\ current_key_index = 0
    /\ consecutive_failures = 0
    /\ failed_keys = {}
    /\ requests_sent = 0
    /\ movies_left = 0
    /\ lookup = 0
    /\ calls_left = MaxCalls
    /\ candidate_movies = <<>>
    /\ common_genres = EmptyMap
    /\ cg_order = <<>>
    /\ max_rec = MAX_RECOMMENDATIONS
    /\ result = <<>>
    /\ GenresIdle
    /\ ActorsIdle
    /\ BlendIdle
    /\ genre_groups = EmptyMap
    /\ available_genres = <<>>
    /\ genre_targets = EmptyMap
    /\ sorted_genres = <<>>
    /\ genre_indices = EmptyMap
    /\ balanced_movies = <<>>
    /\ last_genre = None
    /\ consecutive_count = 0
    /\ relaxed_picks = {}
    /\ HandlerIdle

otherVars == <<genreVars, inputVars, setupVars, loopVars, result, blendVars, actorVars>>

\* lines 202-217: enrich_movies_batch is called with a list of movies
CallEnrichMoviesBatch ==
    /\ BetweenCalls
    /\ calls_left > 0
    /\ calls_left' = calls_left - 1
    /\ movies_left' \in 0..MaxBatch
    /\ lookup' = 0
    /\ pc' = "batch_loop"
    /\ UNCHANGED <<api_keys, current_key_index, consecutive_failures, failed_keys,
                   requests_sent, otherVars, handlerVars>>

\* line 58: _make_api_request_with_rotation is called on its own
CallMakeApiRequest ==
    /\ BetweenCalls
    /\ calls_left > 0
    /\ calls_left' = calls_left - 1
    /\ movies_left' = 0
    /\ lookup' = 0
    /\ pc' = "request_entry"
    /\ UNCHANGED <<api_keys, current_key_index, consecutive_failures, failed_keys,
                   requests_sent, otherVars, handlerVars>>

\* lines 217-220 with 136-137: without keys get_movie_data returns minimal data
BatchMinimal ==
    /\ pc = "batch_loop"
    /\ movies_left > 0
    /\ api_keys = 0
    /\ movies_left' = movies_left - 1
    /\ UNCHANGED <<pc, api_keys, current_key_index, consecutive_failures, failed_keys,
                   requests_sent, lookup, calls_left, otherVars, handlerVars>>

\* lines 217-219 with 139-144: get_movie_data makes its first request
BatchLookup ==
    /\ pc = "batch_loop"
    /\ movies_left > 0
    /\ api_keys > 0
    /\ lookup' = 1
    /\ pc' = "request_entry"
    /\ UNCHANGED <<api_keys, current_key_index, consecutive_failures, failed_keys,
                   requests_sent, movies_left, calls_left, otherVars, handlerVars>>

\* line 226
BatchReturn ==
    /\ pc = "batch_loop"
    /\ movies_left = 0
    /\ pc' = "batch_returned"
    /\ UNCHANGED <<clientVars, otherVars, handlerVars>>

\* lines 60-65: APIBudgetExhausted before any request
RequestRefused ==
    /\ pc = "request_entry"
    /\ BudgetSpent(api_keys, consecutive_failures)
    /\ pc' = "request_refused"
    /\ UNCHANGED <<clientVars, otherVars, handlerVars>>

\* lines 67-77: the request goes out with the current key
RequestSend ==
    /\ pc = "request_entry"
    /\ ~BudgetSpent(api_keys, consecutive_failures)
    /\ requests_sent' = requests_sent + 1
    /\ pc' = "request_sent"
    /\ UNCHANGED <<api_keys, current_key_index, consecutive_failures, failed_keys,
                   movies_left, lookup, calls_left, otherVars, handlerVars>>

\* lines 78-88, 92-102 and 109-119: the key failed; rotate, count, and raise
\* or call again
ReplyFailure ==
    /\ pc = "request_sent"
    /\ \E kind \in FailureKinds :
          /\ current_key_index' = RotateApiKey(current_key_index, api_keys)
          /\ consecutive_failures' = consecutive_failures + 1
          /\ failed_keys' = failed_keys \cup {current_key_index}
          /\ pc' = IF consecutive_failures + 1 >= MAX_CONSECUTIVE_FAILURES
                   THEN "request_exhausted" ELSE "request_entry"
    /\ UNCHANGED <<api_keys, requests_sent, movies_left, lookup, calls_left,
                   otherVars, handlerVars>>

\* get_movie_data is through with the movie (lines 147, 155, 157, 163 and 220)
MovieDone ==
    /\ movies_left' = movies_left - 1
    /\ lookup' = 0
    /\ pc' = "batch_loop"

\* lines 104-107: Response is 'True'
ReplyTrue ==
    /\ pc = "request_sent"
    /\ consecutive_failures' = 0
    /\ failed_keys' = {}
    /\ IF lookup = 0 THEN pc' = "request_returned" /\ UNCHANGED <<movies_left, lookup>>
       ELSE MovieDone
    /\ UNCHANGED <<api_keys, current_key_index, requests_sent, calls_left, otherVars,
                   handlerVars>>

\* line 107 with another Response, e.g. 'Movie not found!'; get_movie_data
\* may ask again without the year (lines 149-152)
ReplyOther ==
    /\ pc = "request_sent"
    /\ \/ lookup = 0 /\ pc' = "request_returned" /\ UNCHANGED <<movies_left, lookup>>
       \/ lookup = 1 /\ pc' = "request_entry" /\ lookup' = 2 /\ UNCHANGED movies_left
       \/ lookup > 0 /\ MovieDone
    /\ UNCHANGED <<api_keys, current_key_index, consecutive_failures, failed_keys,
                   requests_sent, calls_left, otherVars, handlerVars>>

\* the request times out: asyncio.TimeoutError is no aiohttp.ClientError and
\* leaves line 77 uncaught; get_movie_data turns it into minimal data (161-163)
ReplyTimeout ==
    /\ pc = "request_sent"
    /\ IF lookup = 0 THEN pc' = "request_failed" /\ UNCHANGED <<movies_left, lookup>>
       ELSE MovieDone
    /\ UNCHANGED <<api_keys, current_key_index, consecutive_failures, failed_keys,
                   requests_sent, calls_left, otherVars, handlerVars>>

\* lines 159-160 and 221-224: APIBudgetExhausted leaves enrich_movies_batch
BatchReraise ==
    /\ pc \in {"request_refused", "request_exhausted"}
    /\ lookup > 0
    /\ lookup' = 0
    /\ pc' = "batch_raised"
    /\ UNCHANGED <<api_keys, current_key_index, consecutive_failures, failed_keys,
                   requests_sent, movies_left, calls_left, otherVars, handlerVars>>

NextClient ==
    \/ CallEnrichMoviesBatch
    \/ CallMakeApiRequest
    \/ BatchMinimal
    \/ BatchLookup
    \/ BatchReturn
    \/ RequestRefused
    \/ RequestSend
    \/ ReplyFailure
    \/ ReplyTrue
    \/ ReplyOther
    \/ ReplyTimeout
    \/ BatchReraise

SpecClient == InitClient /\ [][NextClient]_vars

(***************************************************************************)
(* C23: APIBudgetExhausted means every key has failed                      *)
(***************************************************************************)
\* C23: whenever _make_api_request_with_rotation raises APIBudgetExhausted
\* on a client with at least one key, every configured key has failed at
\* least once since the client's last reply with Response 'True'.
C23_AllKeysFailed ==
    (pc \in {"request_refused", "request_exhausted"} /\ api_keys >= 1) =>
        failed_keys = 0..(api_keys - 1)

\* three keys, a success on the second key, then the second, third and
\* first key fail in turn
C23_Witness ==
    /\ pc = "request_exhausted"
    /\ api_keys = 3
    /\ current_key_index = 1
    /\ requests_sent = 5
    /\ failed_keys = {0, 1, 2}

(***************************************************************************)
(* C24: exhaustion is permanent                                            *)
(***************************************************************************)
\* C24: once consecutive_failures has reached 3, no step changes the
\* counter or sends a request, every call of
\* _make_api_request_with_rotation at its entry raises APIBudgetExhausted,
\* and enrich_movies_batch goes to that call for a remaining movie and
\* returns only when no movie remains.
C24_ExhaustionPermanent ==
    [][consecutive_failures >= 3 =>
          /\ consecutive_failures' = consecutive_failures
          /\ requests_sent' = requests_sent
          /\ pc' # "request_sent"
          /\ (pc = "request_entry" => pc' = "request_refused")
          /\ (pc = "request_refused" /\ lookup > 0 => pc' = "batch_raised")
          /\ (pc = "batch_loop" /\ movies_left > 0 =>
                 pc' = "request_entry" /\ movies_left' = movies_left)
          /\ (pc' = "batch_returned" => movies_left = 0)]_vars

\* a call of enrich_movies_batch made after the counter reached 3 has been
\* refused at the entry of the request for its first movie
C24_Witness ==
    /\ pc = "request_refused"
    /\ consecutive_failures >= 3
    /\ lookup = 1
    /\ movies_left = MaxBatch
    /\ calls_left = 0
    /\ requests_sent = 3

(***************************************************************************)
(* C25: the output holds input movies only, none twice                     *)
(***************************************************************************)
\* C25: every movie of the list apply_genre_diversity returns is a movie
\* of its input list, and no two positions of the returned list hold the
\* same candidate.
C25_OnlyInputNoRepeat ==
    pc = "done" =>
        /\ \A i \in 1..Len(result) :
              \E k \in 1..Len(candidate_movies) : candidate_movies[k] = result[i]
        /\ \A i \in 1..Len(result) : \A j \in 1..Len(result) :
              result[i] = result[j] => i = j

\* a full output built by both passes from two buckets
C25_Witness ==
    /\ pc = "done"
    /\ Len(candidate_movies) > 50
    /\ Len(result) = 50
    /\ relaxed_picks # {}
    /\ \E i \in 1..Len(result) : \E j \in 1..Len(result) :
          result[i].genres # result[j].genres

(***************************************************************************)
(* C26: more than 50 candidates give exactly 50 movies                     *)
(***************************************************************************)
\* C26: with the cap of 50, a call of apply_genre_diversity with more than
\* 50 candidates returns exactly 50 movies.
C26_ExactlyFifty ==
    (pc = "done" /\ max_rec = 50 /\ Len(candidate_movies) > 50) => Len(result) = 50

\* the quota of a bucket ran out before the output was full: the relaxed
\* pass filled the rest
C26_Witness ==
    /\ pc = "done"
    /\ max_rec = 50
    /\ Len(candidate_movies) > 50
    /\ Len(result) = 50
    /\ \E genre \in DOMAIN genre_targets : genre_indices[genre] > genre_targets[genre]

(***************************************************************************)
(* C27: a bucket's movies come out best first and without gaps             *)
(***************************************************************************)
\* the candidates arrive in descending combined_score order, as blend_movies
\* passes them
ArrivesDescending ==
    \A i \in 1..Len(candidate_movies) : \A j \in 1..Len(candidate_movies) :
        i < j => RGe(candidate_movies[i].combined_score, candidate_movies[j].combined_score)

\* the position of a movie in the returned list, 0 when it is not returned
PositionInResult(movie) ==
    IF \E i \in 1..Len(result) : result[i] = movie
    THEN CHOOSE i \in 1..Len(result) : result[i] = movie
    ELSE 0

\* C27: of two returned movies with the same primary genre the one with the
\* higher combined_score comes first, and a returned movie is preceded by
\* every candidate of its bucket with a higher combined_score.  The list is
\* one the diversity stage has rebuilt (more than 50 candidates) or one that
\* arrived in descending order.
C27_BucketOrderKept ==
    (pc = "done" /\ (Len(candidate_movies) > 50 \/ ArrivesDescending)) =>
        /\ \A i \in 1..Len(result) : \A j \in 1..Len(result) :
              (/\ i < j
               /\ ExpectedBucket(result[i]) = ExpectedBucket(result[j]))
                  => RGe(result[i].combined_score, result[j].combined_score)
        /\ \A i \in 1..Len(result) : \A k \in 1..Len(candidate_movies) :
              (/\ ExpectedBucket(candidate_movies[k]) = ExpectedBucket(result[i])
               /\ RGt(candidate_movies[k].combined_score, result[i].combined_score))
                  => /\ PositionInResult(candidate_movies[k]) > 0
                     /\ PositionInResult(candidate_movies[k]) < i

\* candidates that arrived worst first, two buckets, one of them cut short:
\* the best of each bucket leads it and the worst of the cut bucket is left out
C27_Witness ==
    /\ pc = "done"
    /\ Len(candidate_movies) > 50
    /\ ~ArrivesDescending
    /\ \E i \in 1..Len(result) : \E j \in 1..Len(result) :
          ExpectedBucket(result[i]) # ExpectedBucket(result[j])
    /\ \E k \in 1..Len(candidate_movies) : PositionInResult(candidate_movies[k]) = 0
    /\ result[1].combined_score # candidate_movies[1].combined_score

(***************************************************************************)
(* calculate_movie_score as a call                                         *)
(***************************************************************************)
\* release years run up to this many years past the reference year
MaxYearsAhead == 3

\* release years: whole numbers around the reference year, a str and a
\* float that int() accepts
ScoreYears ==
    {Num(RInt(y)) : y \in (CURRENT_YEAR - 30)..(CURRENT_YEAR + MaxYearsAhead)}
        \cup {Absent, Num(Zero), Str(<<"2012">>), Str(<<"N/A">>), Num(Rat(4047, 2))}

\* database records with the fields the two bonuses read
ScoreMovies ==
    {Plain("title", Str(<<"Z">>)) @@ Plain("genres", List(<<Action>>))
         @@ Field("imdb_rating", rating) @@ Field("year", year) :
        rating \in RatingChoices, year \in ScoreYears}

InitScore ==
    /\ pc = "score_call"
    /\ movies_database \in {<<movie>> : movie \in ScoreMovies}
    /\ common_genres = Action :> RInt(5)
    /\ cg_order = <<Action>>
    /\ user1_data = <<>>
    /\ user2_data = <<>>
    /\ db_index = 1
    /\ user1_watched = {}
    /\ user2_watched = {}
    /\ scored = {}
    /\ candidate_movies = <<>>
    /\ max_rec = MAX_RECOMMENDATIONS
    /\ result = <<>>
    /\ GenresIdle
    /\ ActorsIdle
    /\ LocalsIdle
    /\ ClientIdle
    /\ HandlerIdle

\* lines 239-319
CallCalculateMovieScore ==
    /\ pc = "score_call"
    /\ result' = <<CalculateMovieScore(movies_database[1], common_genres,
                                       ExtractUserPlots(user1_data),
                                       ExtractUserPlots(user2_data),
                                       user1_data, user2_data, <<>>).v>>
    /\ scored' = {1}
    /\ pc' = "score_done"
    /\ UNCHANGED <<clientVars, handlerVars, genreVars, actorVars, inputVars, setupVars,
                   loopVars, user1_data, user2_data, movies_database, db_index,
                   user1_watched, user2_watched>>

NextScore == CallCalculateMovieScore

SpecScore == InitScore /\ [][NextScore]_vars

(***************************************************************************)
(* C28: the range of the recency bonus                                     *)
(***************************************************************************)
\* the record holds a whole-number release year
HasWholeYear(movie) ==
    /\ "year" \in DOMAIN movie
    /\ movie["year"].t = "num"
    /\ movie["year"].v[2] = 1

\* C28: for a whole-number release year the recency_bonus is at least 0 and
\* at most 3.0, and at least 2.0 when the year is 2020 or later, years after
\* 2025 included.
C28_RecencyWithinRange ==
    (pc = "score_done" /\ HasWholeYear(movies_database[1])) =>
        LET year == movies_database[1]["year"].v[1]
            bonus == result[1].recency_bonus
        IN  /\ RGe(bonus, Zero)
            /\ RLe(bonus, RInt(3))
            /\ (year >= 2020 => RGe(bonus, RInt(2)))

(***************************************************************************)
(* C29: unique_key tells the returned records apart                        *)
(***************************************************************************)
\* C29: no two records of the list blend_movies returns carry the same
\* unique_key.
C29_UniqueKeysDistinct ==
    pc = "blend_done" =>
        \A i \in 1..Len(result) : \A j \in 1..Len(result) :
            result[i].unique_key = result[j].unique_key => i = j

(***************************************************************************)
(* POST /blend/test: the handler blend_preferences_test                    *)
(***************************************************************************)
\* a file is missing, holds no JSON, or loads
FileStates == {"missing", "unreadable", "ok"}

\* raise HTTPException(status_code=...)
HTTPException(status_code) == [class |-> "HTTPException", status_code |-> status_code]

\* an exception of another class
OtherException(class) == [class |-> class, status_code |-> 0]

\* the classes `except Exception` catches: HTTPException derives from
\* Exception, as JSONDecodeError and ValueError do
ExceptionClasses == {"HTTPException", "JSONDecodeError", "ValueError"}

\* open() and json.load() on a user's data file: what the inner try raises
\* (lines 305-313 and 315-323), NoException when the data is loaded
LoadUserFile(file) ==
    IF file = "missing" THEN HTTPException(404)
    ELSE IF file = "unreadable" THEN OtherException("JSONDecodeError")
    ELSE NoException

\* lines 328-335
LoadDatabaseFile(file) ==
    IF file = "missing" THEN HTTPException(500)
    ELSE IF file = "unreadable" THEN OtherException("JSONDecodeError")
    ELSE NoException

InitHandler ==
    /\ pc = "open_user1"
    /\ user1_file \in FileStates
    /\ user2_file \in FileStates
    /\ database_file \in FileStates
    /\ blend_raises \in BOOLEAN
    /\ in_flight = NoException
    /\ response_status = 0
    /\ candidate_movies = <<>>
    /\ common_genres = EmptyMap
    /\ cg_order = <<>>
    /\ max_rec = MAX_RECOMMENDATIONS
    /\ result = <<>>
    /\ GenresIdle
    /\ ActorsIdle
    /\ BlendIdle
    /\ LocalsIdle
    /\ ClientIdle

\* a step of the try block: on an exception control goes to line 373
HandlerStep(raised, next) ==
    /\ in_flight' = raised
    /\ pc' = IF raised = NoException THEN next ELSE "except"
    /\ UNCHANGED <<user1_file, user2_file, database_file, blend_raises, response_status,
                   clientVars, otherVars>>

\* lines 302-313
OpenUser1 == pc = "open_user1" /\ HandlerStep(LoadUserFile(user1_file), "open_user2")

\* lines 315-323
OpenUser2 == pc = "open_user2" /\ HandlerStep(LoadUserFile(user2_file), "open_database")

\* lines 325-335
OpenDatabase == pc = "open_database" /\ HandlerStep(LoadDatabaseFile(database_file), "blend")

\* lines 337-338
CallBlendMovies ==
    /\ pc = "blend"
    /\ HandlerStep(IF blend_raises THEN OtherException("ValueError") ELSE NoException,
                   "return")

\* lines 340-371: the recommendations are returned
HandlerReturn ==
    /\ pc = "return"
    /\ response_status' = 200
    /\ pc' = "answered"
    /\ UNCHANGED <<user1_file, user2_file, database_file, blend_raises, in_flight,
                   clientVars, otherVars>>

\* lines 373-378: `except Exception` catches what the try block raised and
\* raises HTTPException(500), which the framework answers with
HandlerExcept ==
    /\ pc = "except"
    /\ in_flight.class \in ExceptionClasses
    /\ in_flight' = HTTPException(500)
    /\ response_status' = 500
    /\ pc' = "answered"
    /\ UNCHANGED <<user1_file, user2_file, database_file, blend_raises, clientVars,
                   otherVars>>

NextHandler ==
    \/ OpenUser1
    \/ OpenUser2
    \/ OpenDatabase
    \/ CallBlendMovies
    \/ HandlerReturn
    \/ HandlerExcept

SpecHandler == InitHandler /\ [][NextHandler]_vars

(***************************************************************************)
(* C30: a missing user file is answered with 404                           *)
(***************************************************************************)
\* C30: when the handler has answered a request for which the data file of
\* the first user is missing, or that of the first user loaded and that of
\* the second is missing, the status the caller receives is 404.
C30_MissingFileAnswers404 ==
    (/\ pc = "answered"
     /\ \/ user1_file = "missing"
        \/ user1_file = "ok" /\ user2_file = "missing")
        => response_status = 404
====
